---- MODULE Spec2Model ----
(***************************************************************************)
(* The S&P 500 leveraged / non-leveraged rotation bot                      *)
(* (src/src/sp500_bot/live_trading.py and the modules it calls).           *)
(*                                                                         *)
(* Units.  The code computes with floats; the model computes with exact    *)
(* integers in fixed units:                                                *)
(*   quantity  1/1000 share          (0.01 share = 10, 0.1 share = 100)    *)
(*   price     1/100 currency        (100.00 = 10000)                      *)
(*   money     quantity * price = 1/100000 currency (5.00 = 500000)        *)
(*   time      whole minutes                                               *)
(* Ratios such as 0.004 are kept as numerator / denominator and every      *)
(* comparison is cross-multiplied, so no rounding enters a comparison.     *)
(*                                                                         *)
(* The control loop is one thread that blocks in time.sleep between its    *)
(* broker calls; pc is its position, and the broker (fills, rejections)    *)
(* moves while it sleeps.                                                  *)
(*                                                                         *)
(* Specifications.                                                         *)
(*   Spec, FairSpec  the class-based loop of sp500_bot/live_trading.py     *)
(*   EnumSpec        the enum loop of src/live_trading.py with             *)
(*                   wait_for_order_or_cancel (tenths of a second)         *)
(*   DecideSpec      the branch decision of the holding states on any      *)
(*                   SignalData                                            *)
(*   GateSpec        are_positions_tradeable on any schedule data          *)
(*   LimiterSpec     RateLimiter of sp500_bot/t212.py                      *)
(*   SchedSpec       the timing of the loop: next_run and INTERVAL         *)
(*   CallSpec        write_state, place_market_order and the value-delta   *)
(*                   verification, each called on any arguments            *)
(* Each specification moves its own variables and holds the others at      *)
(* their idle values.                                                      *)
(***************************************************************************)
EXTENDS Integers, Sequences, FiniteSets, TLC

\* ---------------------------------------------------------------- constants

BASE_TICKER == "VUAAm_EQ"
LEV_TICKER == "US5Ld_EQ"
Tickers == {BASE_TICKER, LEV_TICKER}

\* LEV_DIFF_INVEST = 0.004 = LEV_DIFF_INVEST_NUM / RATIO_DEN
LEV_DIFF_INVEST_NUM == 4
\* STOP_LOSS_THRESHOLD = 0.005 = STOP_LOSS_THRESHOLD_NUM / RATIO_DEN
STOP_LOSS_THRESHOLD_NUM == 5
RATIO_DEN == 10 * 100
\* TIME_DIFF_INVEST = timedelta(minutes=2)
TIME_DIFF_INVEST == 2
\* time.sleep(300) of a closed market, in minutes
CLOSED_SLEEP == 5

\* one currency unit in money units
MONEY == 100 * 1000
\* the residual kept by a sell leg: 0.01 share leveraged, 0.1 share base
LEV_RESIDUAL == 10
BASE_RESIDUAL == 100
\* the noise threshold of the value-delta verification (5 currency)
VERIFY_DELTA == 5
\* the least cash a buy leg spends (10 currency)
MIN_CASH == 10
\* quantity * 0.9 = quantity * BUY_FRACTION_NUM / 10
BUY_FRACTION_NUM == 9

\* ------------------------------------------------------------------- bounds

\* minutes that may pass between two readings of curdatetime
MaxDt == 1
\* orders the broker accepts in one run
MaxOrders == 3

\* broker-reported prices (inputs of every read)
BasePrices == {9949, 9950, 9951, 10000}
LevPrices == {4980, 5000, 5020, 5021}

\* the price at which the broker executes a market order
FillPrice(t) == IF t = BASE_TICKER THEN 10000 ELSE 5000

\* the accounts the bot may be started on: quantities per ticker and idle cash
InitAccounts ==
  { [base |-> 100,  lev |-> 10,   cash |-> 100 * MONEY],   \* cash only
    [base |-> 100,  lev |-> 2000, cash |-> 12 * MONEY],    \* leveraged held
    [base |-> 1000, lev |-> 10,   cash |-> 0],              \* base held
    [base |-> 500,  lev |-> 1000, cash |-> 20 * MONEY] }   \* both held

\* ------------------------------------------------------------------ helpers

\* a sell leg that keeps nothing back (a variant C38 must tell from the
\* code's residuals)
Residual_none(t) == 0

Residual(t) == IF t = LEV_TICKER THEN LEV_RESIDUAL ELSE BASE_RESIDUAL
Other(t) == IF t = LEV_TICKER THEN BASE_TICKER ELSE LEV_TICKER

\* n / d rounded to the nearest integer, ties to even (n >= 0, d > 0)
RoundHalfEven(n, d) ==
  LET q == n \div d
      r == n % d
  IN  IF 2 * r < d THEN q
      ELSE IF 2 * r > d THEN q + 1
      ELSE IF q % 2 = 0 THEN q ELSE q + 1

\* round(x, 2) of a quantity x = n / d (in 1/1000 share): a multiple of 10
Round2(n, d) == 10 * RoundHalfEven(n, 10 * d)

\* Position.quantity * Position.currentPrice
Value(p) == p.quantity * p.currentPrice

\* the saturating clock: a duration above TIME_DIFF_INVEST compares like
\* TIME_DIFF_INVEST + 1
Sat(t) == IF t > TIME_DIFF_INVEST + 1 THEN TIME_DIFF_INVEST + 1 ELSE t

\* -------------------------------------------------------------------- state

VARIABLES
  pc,                      \* position of the control loop thread
  trader_state,            \* class of the active TraderState
  signal_data,             \* its SignalData (prices and entry price)
  time_since_base_change,  \* curdatetime - signal_data.time_last_base_change
  positions,               \* broker: quantity held per ticker
  cash,                    \* broker: cash.availableToTrade
  open_orders,             \* broker: market orders accepted and not yet settled
  orders_placed,           \* broker: orders accepted so far
  initial_value,           \* local of process: position value before an order
  cash_available,          \* local of a swap: cash read after the sell leg
  crash_site,              \* the call whose exception ended the interpreter,
                           \* and the step that made it
  cycle,                   \* record of the loop iteration in progress
  decision_input,          \* a holding state's process called on its own:
                           \* the state, its SignalData and what main read
  decision,                \* the branch that call took
  wait_id,                 \* wait_for_order_or_cancel: the order waited for
  wait_elapsed,            \* time.time() - start, in tenths of a second
  wait_cancels,            \* cancel requests the call has sent
  wait_returned,           \* how the call ended: "True", "False", "raised"
  wait_filled,             \* broker: the order waited for has been executed
  gate_input,              \* are_positions_tradeable: instruments, working
                           \* schedules and the current time
  gate_result,             \* what the call returned or raised
  time_now,                \* RateLimiter: time.time(), in tenths of a second
  last_call,               \* RateLimiter._last_call
  limiter_call,            \* the RateLimiter.wait call that has just returned
  sched_pc,                \* main's scheduling: position in the iteration
  sched_now,               \* time.time(), in seconds since main started
  next_run,                \* next_run, in the same unit
  sched_cycle,             \* record of the iteration being scheduled
  call_input,              \* a function called on its own: its name and
                           \* its arguments
  call_result              \* what that call returned or sent

\* the control loop of sp500_bot/live_trading.py and its broker
program == << pc, trader_state, signal_data, time_since_base_change, positions,
              cash, open_orders, orders_placed, initial_value, cash_available,
              crash_site, cycle >>
\* the functions and classes checked on their own, one tuple each
decide == << decision_input, decision >>
wait == << wait_id, wait_elapsed, wait_cancels, wait_returned, wait_filled >>
gate == << gate_input, gate_result >>
limiter == << time_now, last_call, limiter_call >>
sched == << sched_pc, sched_now, next_run, sched_cycle >>
call == << call_input, call_result >>
components == << decide, wait, gate, limiter, sched, call >>

vars == << program, components >>

broker == << positions, cash, open_orders, orders_placed >>
locals == << initial_value, cash_available >>

\* SignalData whose leveraged reference keeps the seed value 0.0 (a variant
\* C12 must tell from the reference written from the price read)
SignalData_seed_reference(base, lev, entry) ==
  [ base_value_at_last_change |-> base,
    lev_value_at_last_change  |-> 0,
    position_entry_price      |-> entry ]

\* SignalData(...) without its time stamp, which time_since_base_change holds
SignalData(base, lev, entry) ==
  [ base_value_at_last_change |-> base,
    lev_value_at_last_change  |-> lev,
    position_entry_price      |-> entry ]

\* a Position as get_current_positions returns it
Position(t, price) == [ quantity |-> positions[t], currentPrice |-> price ]

NoPosition == [ quantity |-> 0, currentPrice |-> 0 ]

\* The record of an iteration: the state whose process runs with its signal
\* data and the age it reads (curdatetime - time_last_base_change), the
\* positions and cash its branch decision has read (kept for one step), the
\* branch taken, the orders sent, which legs were verified, and how process
\* ended.
NoCycle ==
  [ state |-> "", sd |-> SignalData(0, 0, 0), age |-> 0,
    base_position |-> NoPosition, lev_position |-> NoPosition, cash |-> 0,
    trigger |-> "", orders |-> << >>,
    sell_verified |-> FALSE, buy_verified |-> FALSE, exit |-> "",
    all_open |-> "", lookup |-> "" ]

\* the iteration of state s with signal data sd at age
Started(s, sd, age) == [ NoCycle EXCEPT !.state = s, !.sd = sd, !.age = age ]

\* what are_positions_tradeable returns to main
GateAnswers == {"True", "False"}

\* main going on to process whatever the gate returned (a variant C21 must
\* tell from the test of all_open)
Skips_never(all_open) == FALSE

\* main: if not all_open: time.sleep(300); continue
Skips(all_open) == all_open # "True"

\* how the iteration's record ends
End(c, label) == [ c EXCEPT !.exit = label ]

\* the iteration's record with the gate's answer
Gated(c, all_open) == [ c EXCEPT !.all_open = all_open ]

\* the branch d was taken on what was read
Decided(c, base_position, lev_position, cash_now, d) ==
  [ c EXCEPT !.base_position = base_position, !.lev_position = lev_position,
             !.cash = cash_now, !.trigger = d ]

\* one step later the values read are no longer kept
Forget(c) ==
  [ c EXCEPT !.base_position = NoPosition, !.lev_position = NoPosition, !.cash = 0 ]

\* crash_site while the interpreter runs
NoCrash == [ call |-> "", step |-> "" ]

\* no call of a holding state's process on its own
NoDecision == [ state |-> "", sd |-> SignalData(0, 0, 0), base |-> 0, lev |-> 0,
                age |-> 0 ]
DecideIdle == decision_input = NoDecision /\ decision = ""

\* wait_for_order_or_cancel is not running
WaitIdle ==
  /\ wait_id = 0 /\ wait_elapsed = 0 /\ wait_cancels = 0 /\ wait_returned = ""
  /\ wait_filled = FALSE

\* a WorkingSchedule: known is FALSE when no exchange lists its id,
\* has_events is FALSE when timeEvents is None
Schedule(known, has_events, events) ==
  [ known |-> known, has_events |-> has_events, timeEvents |-> events ]

\* no call of are_positions_tradeable on its own
NoGate ==
  [ now |-> 0, workingSchedules |-> [ t \in Tickers |-> Schedule(FALSE, FALSE, << >>) ] ]
GateIdle == gate_input = NoGate /\ gate_result = ""

\* no call of RateLimiter.wait has just returned
NoLimiterCall == [ endpoint |-> "", last |-> 0, slept |-> 0 ]
\* RateLimiter() at import: self._last_call = {}
LimiterIdle ==
  time_now = 0 /\ last_call = [ e \in {} |-> 0 ] /\ limiter_call = NoLimiterCall

\* The record of the iteration being scheduled: next_run when the
\* iteration started, the time at which the previous scheduling step ended,
\* whether the loop has slept since, and whether the scheduling step has
\* just reset next_run.
NoSchedCycle == [ before |-> 0, prev_end |-> 0, slept |-> FALSE, reset |-> FALSE ]
\* main at next_run = time.time(), before the first iteration
SchedIdle ==
  sched_pc = "loop" /\ sched_now = 0 /\ next_run = 0 /\ sched_cycle = NoSchedCycle

\* no function is called on its own
NoCall == [ fn |-> "" ]
CallIdle == call_input = NoCall /\ call_result = NoCall

\* the components are not exercised while the control loop runs
ComponentsIdle ==
  DecideIdle /\ WaitIdle /\ GateIdle /\ LimiterIdle /\ SchedIdle /\ CallIdle

\* main(): the seed state and the account found at start
Init ==
  /\ pc = "loop"
  /\ trader_state = "Initializing"
  /\ signal_data = SignalData(0, 0, 0)
  /\ time_since_base_change = 0
  /\ \E a \in InitAccounts :
       /\ positions = [ t \in Tickers |-> IF t = BASE_TICKER THEN a.base ELSE a.lev ]
       /\ cash = a.cash
  /\ open_orders = << >>
  /\ orders_placed = 0
  /\ initial_value = 0
  /\ cash_available = 0
  /\ crash_site = NoCrash
  /\ cycle = NoCycle
  /\ ComponentsIdle

\* ------------------------------------------------------------------- broker

\* sequence s without its i-th element
Remove(s, i) == [ j \in 1..(Len(s) - 1) |-> IF j < i THEN s[j] ELSE s[j + 1] ]

\* the broker executes an open market order, or drops it when the account
\* cannot cover it
BrokerFill ==
  /\ pc # "crashed"
  /\ \E i \in 1..Len(open_orders) :
       LET o == open_orders[i]
           p == FillPrice(o.ticker)
           covered == IF o.quantity > 0
                      THEN cash >= o.quantity * p
                      ELSE positions[o.ticker] >= -o.quantity
       IN  /\ open_orders' = Remove(open_orders, i)
           /\ positions' = IF covered
                           THEN [ positions EXCEPT ![o.ticker] = @ + o.quantity ]
                           ELSE positions
           /\ cash' = IF covered THEN cash - o.quantity * p ELSE cash
           /\ wait_filled' = IF wait_id # 0 /\ o.id = wait_id
                             THEN covered ELSE wait_filled
  /\ UNCHANGED << pc, trader_state, signal_data, time_since_base_change,
                  orders_placed, locals, crash_site, cycle >>
  /\ UNCHANGED << wait_id, wait_elapsed, wait_cancels, wait_returned >>
  /\ UNCHANGED << decide, gate, limiter, sched, call >>

\* the broker drops an open order without executing it
BrokerReject ==
  /\ pc # "crashed"
  /\ \E i \in 1..Len(open_orders) : open_orders' = Remove(open_orders, i)
  /\ UNCHANGED << pc, trader_state, signal_data, time_since_base_change,
                  positions, cash, orders_placed, locals, crash_site, cycle >>
  /\ UNCHANGED components

\* ---------------------------------------------------------- order placement

\* the payload quantity of place_market_order for a MarketOrder of quantity
\* n / d: round(quantity, 2) for a BUY, round(-quantity, 2) for a SELL
MarketOrderPayload(type, n, d) ==
  IF type = "BUY" THEN Round2(n, d) ELSE -Round2(n, d)

\* How place_market_order and the "order placed" message that follows it in
\* the caller's try block can end:
\*   ok         the POST is accepted and every send_message is delivered
\*   tg_before  send_message raises before the POST: nothing is sent
\*   rejected   the POST is answered with an error status: raise_for_status
\*   tg_after   the POST is accepted and a later send_message raises
PlaceOutcomes == {"ok", "tg_before", "rejected", "tg_after"}
Accepted(o) == o \in {"ok", "tg_after"}
Posted(o) == o \in {"ok", "rejected", "tg_after"}
PlaceRaised(o) == o # "ok"

\* the broker refuses a zero quantity, and an order beyond MaxOrders
CanEnd(o, payload) == Accepted(o) => (payload # 0 /\ orders_placed < MaxOrders)

\* the broker's side of place_market_order
place_market_order(t, payload, o) ==
  /\ open_orders' = IF Accepted(o)
                    THEN Append(open_orders, [ ticker |-> t, quantity |-> payload ])
                    ELSE open_orders
  /\ orders_placed' = IF Accepted(o) THEN orders_placed + 1 ELSE orders_placed
  /\ UNCHANGED << positions, cash >>

\* the iteration's list of orders sent to the broker
WithOrder(orders, t, type, payload, o) ==
  IF Posted(o)
  THEN Append(orders, [ ticker |-> t, type |-> type, quantity |-> payload,
                        accepted |-> Accepted(o) ])
  ELSE orders

\* ------------------------------------------------------- ends of a loop step

\* Goto with process writing into self.signal_data on its way (a variant C33
\* must tell from a process that only reads it)
Goto_mutating(p) ==
  /\ pc' = p
  /\ signal_data' = [ signal_data EXCEPT !.lev_value_at_last_change = 0 ]
  /\ UNCHANGED << trader_state, crash_site >>

\* the step blocks (time.sleep) and resumes at p
Goto(p) ==
  /\ pc' = p
  /\ UNCHANGED << trader_state, signal_data, crash_site >>

\* the same, in a step that does not read the clock
Resume(p) == Goto(p) /\ UNCHANGED time_since_base_change

\* An exception leaves process and main: the interpreter exits and its
\* memory is gone.  c is the iteration's record so far.
Raise(site, c) ==
  /\ pc' = "crashed"
  /\ crash_site' = [ call |-> site, step |-> pc ]
  /\ signal_data' = SignalData(0, 0, 0)
  /\ time_since_base_change' = 0
  /\ initial_value' = 0
  /\ cash_available' = 0
  /\ cycle' = [ Forget(c) EXCEPT !.sd = SignalData(0, 0, 0), !.age = 0,
                                !.exit = "raised" ]
  /\ UNCHANGED trader_state

\* process returns state st with signal data sd, main assigns trader_state;
\* age = curdatetime - sd.time_last_base_change
Return(st, sd, age) ==
  /\ trader_state' = st
  /\ signal_data' = sd
  /\ time_since_base_change' = age
  /\ pc' = "write_state"
  /\ UNCHANGED crash_site

\* ------------------------------------------------------------- control loop

\* main: get_current_positions, are_positions_tradeable or write_positions
\* raises before process is called
MainRaise ==
  /\ pc = "loop"
  /\ \E site \in {"main.get_current_positions", "are_positions_tradeable",
                  "write_positions"} : Raise(site, cycle)
  /\ UNCHANGED broker
  /\ UNCHANGED components

\* main: the markets are not all open: sleep 300 s, continue
MarketsClosed ==
  /\ pc = "loop"
  /\ \E all_open \in GateAnswers :
       /\ Skips(all_open)
       /\ cycle' = End(Gated(NoCycle, all_open), "markets_closed")
  /\ time_since_base_change' = Sat(time_since_base_change + CLOSED_SLEEP)
  /\ UNCHANGED << pc, trader_state, signal_data, broker, locals, crash_site >>
  /\ UNCHANGED components

\* main after process has returned: write_state, then sleep until next_run
MainWriteState ==
  /\ pc = "write_state"
  /\ \/ /\ pc' = "loop"
        /\ cycle' = NoCycle
        /\ UNCHANGED << trader_state, signal_data, time_since_base_change,
                        locals, crash_site >>
     \/ Raise("write_state", cycle)
  /\ UNCHANGED broker
  /\ UNCHANGED components

\* calls of a step that are made outside any try block
Uncaught(sites, c) == \E site \in sites : Raise(site, c)

\* ------------------------------------------------------------- Initializing

\* Initializing_decide with the cash test moved in front of the comparisons
\* of values (a variant C10 must tell from the code's order)
Initializing_decide_cash_first(base_value, lev_value, cash_now) ==
  IF cash_now > MIN_CASH * MONEY THEN "buy"
  ELSE IF base_value > lev_value /\ base_value > cash_now THEN "base"
  ELSE IF lev_value > base_value /\ lev_value > cash_now THEN "lev"
  ELSE "idle"

\* the branch Initializing.process takes on the values it has read
Initializing_decide(base_value, lev_value, cash_now) ==
  IF base_value > lev_value /\ base_value > cash_now THEN "base"
  ELSE IF lev_value > base_value /\ lev_value > cash_now THEN "lev"
  ELSE IF cash_now > MIN_CASH * MONEY THEN "buy"
  ELSE "idle"

\* BuyVerified with < for <= (a variant C29 must tell from the code's test)
BuyVerified_nonstrict(new_value, old_value) ==
  ~(new_value < old_value + VERIFY_DELTA * MONEY)
\* a buy leg is verified unless new_value <= initial_value + 5
BuyVerified(new_value, old_value) == ~(new_value <= old_value + VERIFY_DELTA * MONEY)
\* SellVerified without the test (a variant C28 must tell from the
\* verification that precedes the buy leg)
SellVerified_skipped(new_value, old_value) == TRUE
\* a sell leg is verified unless new_value >= initial_value - 5
SellVerified(new_value, old_value) == ~(new_value >= old_value - VERIFY_DELTA * MONEY)

\* Initializing.process up to time.sleep(10): cancel_open_orders
Initializing_cancel ==
  /\ pc = "loop"
  /\ trader_state = "Initializing"
  /\ \E all_open \in GateAnswers :
       /\ ~Skips(all_open)
       /\ LET c == Gated(Started("Initializing", signal_data,
                                 time_since_base_change), all_open)
          IN  \/ /\ open_orders' = << >>
                 /\ cycle' = c
                 /\ Resume("init_read")
                 /\ UNCHANGED locals
              \/ /\ Uncaught({"cancel_open_orders"}, c)
                 /\ UNCHANGED open_orders
  /\ UNCHANGED << positions, cash, orders_placed >>
  /\ UNCHANGED components

\* Initializing.process from the re-read of the account to time.sleep(5) or
\* to its return
Initializing_read ==
  /\ pc = "init_read"
  /\ \E bp \in BasePrices, lp \in LevPrices :
       LET base_position == Position(BASE_TICKER, bp)
           lev_position == Position(LEV_TICKER, lp)
           d == Initializing_decide(Value(base_position), Value(lev_position), cash)
           c == Decided(cycle, base_position, lev_position, cash, d)
           payload == MarketOrderPayload("BUY", BUY_FRACTION_NUM * cash, 10 * lp)
       IN  \/ /\ d = "base"
              /\ Return("HoldingNonLeveraged", SignalData(bp, lp, bp), 0)
              /\ cycle' = End(c, "resumed")
              /\ UNCHANGED << broker, locals >>
           \/ /\ d = "lev"
              /\ Return("HoldingLeveraged", SignalData(bp, lp, lp), 0)
              /\ cycle' = End(c, "resumed")
              /\ UNCHANGED << broker, locals >>
           \/ /\ d = "idle"
              /\ Return("Initializing", signal_data, time_since_base_change)
              /\ cycle' = End(c, "idle")
              /\ UNCHANGED << broker, locals >>
           \/ /\ d = "buy"
              /\ \E o \in PlaceOutcomes :
                   /\ CanEnd(o, payload)
                   /\ place_market_order(LEV_TICKER, payload, o)
                   /\ LET c2 == [ c EXCEPT !.orders =
                                    WithOrder(@, LEV_TICKER, "BUY", payload, o) ]
                      IN  IF PlaceRaised(o)
                          THEN \/ /\ Return("Initializing", signal_data,
                                            time_since_base_change)
                                  /\ cycle' = End(c2, "buy_error")
                                  /\ UNCHANGED locals
                               \/ Raise("send_message", c2)
                          ELSE /\ Resume("init_verify")
                               /\ initial_value' = Value(lev_position)
                               /\ cycle' = c2
                               /\ UNCHANGED cash_available
           \/ /\ Uncaught({"get_current_positions", "fetch_account_summary",
                           "send_message"}, c)
              /\ UNCHANGED broker
  /\ UNCHANGED components

\* Initializing.process after time.sleep(5): the fill is verified by value
Initializing_verify ==
  /\ pc = "init_verify"
  /\ \E bp \in BasePrices, lp \in LevPrices :
       LET new_lev_value == Value(Position(LEV_TICKER, lp))
           c == Forget(cycle)
       IN  \/ /\ IF BuyVerified(new_lev_value, initial_value)
                 THEN /\ Return("HoldingLeveraged", SignalData(bp, lp, lp), 0)
                      /\ cycle' = End([ c EXCEPT !.buy_verified = TRUE ], "bought")
                 ELSE /\ Return("Initializing", signal_data, time_since_base_change)
                      /\ cycle' = End(c, "buy_unverified")
              /\ initial_value' = 0
              /\ UNCHANGED cash_available
           \/ Uncaught({"get_current_positions", "send_message"}, c)
  /\ UNCHANGED broker
  /\ UNCHANGED components

\* ---------------------------------------------------------- signal tracking

\* DivergedUp with a threshold of 0.005 (a variant C5 must tell from 0.004)
DivergedUp_wide(lev, ref) == (lev - ref) * RATIO_DEN > (LEV_DIFF_INVEST_NUM + 1) * ref
\* DivergedUp with >= for > (a variant C6 must tell from the strict test)
DivergedUp_nonstrict(lev, ref) == (lev - ref) * RATIO_DEN >= LEV_DIFF_INVEST_NUM * ref
\* DwellPassed without the dwell test (a variant C7 must tell from the guard)
DwellPassed_ignored(age) == age >= 0
\* StopLoss with <= for < (a variant C9 must tell from the strict test)
StopLoss_nonstrict(base, entry) ==
  base * RATIO_DEN <= entry * (RATIO_DEN - STOP_LOSS_THRESHOLD_NUM)

\* lev_diff_rel > LEV_DIFF_INVEST, lev_diff_rel = (lev - ref) / ref, ref > 0
DivergedUp(lev, ref) == (lev - ref) * RATIO_DEN > LEV_DIFF_INVEST_NUM * ref
\* lev_diff_rel < -LEV_DIFF_INVEST
DivergedDown(lev, ref) == (lev - ref) * RATIO_DEN < -(LEV_DIFF_INVEST_NUM * ref)
\* time_since_base_change > TIME_DIFF_INVEST
DwellPassed(age) == age > TIME_DIFF_INVEST
\* base_position.currentPrice > entry_price
TakeProfit(base, entry) == base > entry
\* base_position.currentPrice < entry_price * (1 - STOP_LOSS_THRESHOLD)
StopLoss(base, entry) ==
  base * RATIO_DEN < entry * (RATIO_DEN - STOP_LOSS_THRESHOLD_NUM)

\* HoldingLeveraged_decide with IEEE division: a quotient by 0.0 is inf (or
\* NaN), which is then compared with the threshold (a variant C13 must tell
\* from Python's float division)
HoldingLeveraged_decide_ieee(sd, base, lev, age) ==
  IF base # sd.base_value_at_last_change THEN "base_changed"
  ELSE IF sd.lev_value_at_last_change = 0
       THEN IF lev > 0 /\ age > TIME_DIFF_INVEST THEN "divergence" ELSE "none"
  ELSE IF (lev - sd.lev_value_at_last_change) * RATIO_DEN
            > LEV_DIFF_INVEST_NUM * sd.lev_value_at_last_change
          /\ age > TIME_DIFF_INVEST
       THEN "divergence"
  ELSE "none"

\* the branch HoldingLeveraged.process takes
HoldingLeveraged_decide(sd, base, lev, age) ==
  IF base # sd.base_value_at_last_change THEN "base_changed"
  ELSE IF sd.lev_value_at_last_change = 0 THEN "ZeroDivisionError"
  ELSE IF DivergedUp(lev, sd.lev_value_at_last_change) /\ DwellPassed(age)
       THEN "divergence"
  ELSE "none"

\* HoldingNonLeveraged_decide with the base-change test in front of
\* take-profit and stop-loss (a variant C8 must tell from the code's order)
HoldingNonLeveraged_decide_reset_first(sd, base, lev, age) ==
  IF base # sd.base_value_at_last_change THEN "base_changed"
  ELSE IF base > sd.position_entry_price THEN "take_profit"
  ELSE IF base * RATIO_DEN < sd.position_entry_price * (RATIO_DEN - STOP_LOSS_THRESHOLD_NUM)
       THEN "stop_loss"
  ELSE IF sd.lev_value_at_last_change = 0 THEN "ZeroDivisionError"
  ELSE IF (lev - sd.lev_value_at_last_change) * RATIO_DEN
            < -(LEV_DIFF_INVEST_NUM * sd.lev_value_at_last_change)
          /\ age > TIME_DIFF_INVEST
       THEN "divergence"
  ELSE "none"

\* the branch HoldingNonLeveraged.process takes
HoldingNonLeveraged_decide(sd, base, lev, age) ==
  IF TakeProfit(base, sd.position_entry_price) THEN "take_profit"
  ELSE IF StopLoss(base, sd.position_entry_price) THEN "stop_loss"
  ELSE IF base # sd.base_value_at_last_change THEN "base_changed"
  ELSE IF sd.lev_value_at_last_change = 0 THEN "ZeroDivisionError"
  ELSE IF DivergedDown(lev, sd.lev_value_at_last_change) /\ DwellPassed(age)
       THEN "divergence"
  ELSE "none"

Holding_decide(s, sd, base, lev, age) ==
  IF s = "HoldingLeveraged"
  THEN HoldingLeveraged_decide(sd, base, lev, age)
  ELSE HoldingNonLeveraged_decide(sd, base, lev, age)

\* the branches that call a swap
SwapTriggers == {"take_profit", "stop_loss", "divergence"}

\* ReferenceReset taking the base price read as the new entry price (a
\* variant C31 must tell from the entry price that is kept)
ReferenceReset_entry_lost(sd, base, lev) == SignalData(base, lev, base)

\* the SignalData of the state returned when the base price has changed: the
\* prices read, and the entry price the state had
ReferenceReset(sd, base, lev) == SignalData(base, lev, sd.position_entry_price)

\* process of a holding state s up to its return or to the time.sleep(2)
\* that opens a swap; main has read the positions and curdatetime
Holding_process(s) ==
  /\ pc = "loop"
  /\ trader_state = s
  /\ \E bp \in BasePrices, lp \in LevPrices, dt \in 0..MaxDt,
        all_open \in GateAnswers :
       LET age == Sat(time_since_base_change + dt)
           base_position == Position(BASE_TICKER, bp)
           lev_position == Position(LEV_TICKER, lp)
           d == Holding_decide(s, signal_data, bp, lp, age)
           c == Decided(Gated(Started(s, signal_data, age), all_open),
                        base_position, lev_position, 0, d)
       IN  /\ ~Skips(all_open)
           /\ IF d = "ZeroDivisionError"
              THEN Raise("ZeroDivisionError", c)
              ELSE \/ /\ d = "base_changed"
                      /\ Return(s, ReferenceReset(signal_data, bp, lp), 0)
                      /\ cycle' = End(c, "reference_reset")
                      /\ UNCHANGED locals
                   \/ /\ d = "none"
                      /\ Return(s, signal_data, age)
                      /\ cycle' = End(c, "no_action")
                      /\ UNCHANGED locals
                   \/ /\ d \in SwapTriggers
                      /\ \/ /\ Goto("swap_sell")
                            /\ time_since_base_change' = age
                            /\ cycle' = c
                            /\ UNCHANGED locals
                         \/ Raise("send_message", c)
  /\ UNCHANGED broker
  /\ UNCHANGED components

HoldingLeveraged_process == Holding_process("HoldingLeveraged")
HoldingNonLeveraged_process == Holding_process("HoldingNonLeveraged")

\* -------------------------------------------------------------------- swaps

\* the instrument a holding state holds, and the state holding an instrument
\* (StateHolding_leveraged: a variant C32 must tell from the state a
\* completed swap returns)
Holding(s) == IF s = "HoldingLeveraged" THEN LEV_TICKER ELSE BASE_TICKER
StateHolding_leveraged(t) == "HoldingLeveraged"
StateHolding(t) == IF t = LEV_TICKER THEN "HoldingLeveraged" ELSE "HoldingNonLeveraged"
Prices(t) == IF t = BASE_TICKER THEN BasePrices ELSE LevPrices

\* StayPut returning a state whose reference is reset to the seed (a variant
\* C3 must tell from the return of self.signal_data)
StayPut_reseeded(c, label) ==
  /\ Return(trader_state, SignalData(0, 0, 0), 0)
  /\ cycle' = End(c, label)
  /\ initial_value' = 0
  /\ cash_available' = 0

\* StayPut falling back to Initializing (a variant C27 must tell from the
\* return of the state the swap was called on)
StayPut_reinitialize(c, label) ==
  /\ Return("Initializing", signal_data, time_since_base_change)
  /\ cycle' = End(c, label)
  /\ initial_value' = 0
  /\ cash_available' = 0

\* the swap returns the state it was called on, with its signal data
StayPut(c, label) ==
  /\ Return(trader_state, signal_data, time_since_base_change)
  /\ cycle' = End(c, label)
  /\ initial_value' = 0
  /\ cash_available' = 0

\* the quantity of t in the positions main read before it called process (a
\* variant C30 must tell from the re-read inside the swap)
Reread_from_main(t) ==
  IF t = BASE_TICKER THEN cycle.base_position.quantity
  ELSE cycle.lev_position.quantity

\* the swap's own get_current_positions() after time.sleep(2): the quantity
\* of t the broker reports then
Reread(t) == positions[t]

\* _swap_to_*: after time.sleep(2), the sell leg up to time.sleep(5)
SwapSell(s) ==
  /\ pc = "swap_sell"
  /\ trader_state = s
  /\ LET t == Holding(s)
         c == Forget(cycle)
     IN  \E p \in Prices(t) :
           LET payload == MarketOrderPayload("SELL", Reread(t) - Residual(t), 1)
           IN  \/ /\ Reread(t) > Residual(t)
                  /\ \E o \in PlaceOutcomes :
                       /\ CanEnd(o, payload)
                       /\ place_market_order(t, payload, o)
                       /\ LET c2 == [ c EXCEPT !.orders =
                                        WithOrder(@, t, "SELL", payload, o) ]
                          IN  IF PlaceRaised(o)
                              THEN \/ StayPut(c2, "sell_error")
                                   \/ Raise("send_message", c2)
                              ELSE /\ Resume("swap_verify_sell")
                                   /\ initial_value' = Reread(t) * p
                                   /\ cycle' = c2
                                   /\ UNCHANGED cash_available
               \/ /\ ~(Reread(t) > Residual(t))
                  /\ Resume("swap_verify_sell")
                  /\ initial_value' = Reread(t) * p
                  /\ cycle' = c
                  /\ UNCHANGED << broker, cash_available >>
               \/ /\ Uncaught({"get_current_positions"}, c)
                  /\ UNCHANGED broker
  /\ UNCHANGED components

\* _swap_to_*: after time.sleep(5), the sell leg is verified by value and the
\* buy leg is placed, up to the next time.sleep(5)
SwapBuy(s) ==
  /\ pc = "swap_verify_sell"
  /\ trader_state = s
  /\ LET t == Holding(s)
         b == Other(t)
     IN  \E p \in Prices(t), q \in Prices(b) :
           LET sold == SellVerified(positions[t] * p, initial_value)
               c == [ cycle EXCEPT !.sell_verified = sold ]
               payload == MarketOrderPayload("BUY", BUY_FRACTION_NUM * cash, 10 * q)
           IN  \/ /\ ~sold
                  /\ StayPut(c, "sell_unverified")
                  /\ UNCHANGED broker
               \/ /\ sold
                  /\ cash < MIN_CASH * MONEY
                  /\ StayPut(c, "no_cash")
                  /\ UNCHANGED broker
               \/ /\ sold
                  /\ ~(cash < MIN_CASH * MONEY)
                  /\ \E o \in PlaceOutcomes :
                       /\ CanEnd(o, payload)
                       /\ place_market_order(b, payload, o)
                       /\ LET c2 == [ c EXCEPT !.orders =
                                        WithOrder(@, b, "BUY", payload, o) ]
                          IN  IF PlaceRaised(o)
                              THEN \/ StayPut(c2, "buy_error")
                                   \/ Raise("send_message", c2)
                              ELSE /\ Resume("swap_verify_buy")
                                   /\ initial_value' = positions[b] * q
                                   /\ cash_available' = cash
                                   /\ cycle' = c2
               \/ /\ Uncaught({"get_current_positions", "send_message"}, c)
                  /\ UNCHANGED broker
               \/ /\ sold
                  /\ Uncaught({"fetch_account_summary"}, c)
                  /\ UNCHANGED broker
  /\ UNCHANGED components

\* _swap_to_*: after time.sleep(5), the buy leg is verified by value
SwapVerifyBuy(s) ==
  /\ pc = "swap_verify_buy"
  /\ trader_state = s
  /\ LET b == Other(Holding(s))
     IN  \E bp \in BasePrices, lp \in LevPrices :
           LET q == IF b = BASE_TICKER THEN bp ELSE lp
           IN  \/ IF BuyVerified(positions[b] * q, initial_value)
                  THEN /\ Return(StateHolding(b), SignalData(bp, lp, q), 0)
                       /\ cycle' = End([ cycle EXCEPT !.buy_verified = TRUE ],
                                       "swapped")
                       /\ initial_value' = 0
                       /\ cash_available' = 0
                  ELSE StayPut(cycle, "buy_unverified")
               \/ Uncaught({"get_current_positions", "send_message"}, cycle)
  /\ UNCHANGED broker
  /\ UNCHANGED components

swap_to_non_leveraged_sell == SwapSell("HoldingLeveraged")
swap_to_non_leveraged_buy == SwapBuy("HoldingLeveraged")
swap_to_non_leveraged_verify == SwapVerifyBuy("HoldingLeveraged")
swap_to_leveraged_sell == SwapSell("HoldingNonLeveraged")
swap_to_leveraged_buy == SwapBuy("HoldingNonLeveraged")
swap_to_leveraged_verify == SwapVerifyBuy("HoldingNonLeveraged")

\* ------------------------------------------------------------ specification

Next ==
  \/ MainRaise
  \/ MarketsClosed
  \/ MainWriteState
  \/ Initializing_cancel
  \/ Initializing_read
  \/ Initializing_verify
  \/ HoldingLeveraged_process
  \/ HoldingNonLeveraged_process
  \/ swap_to_non_leveraged_sell
  \/ swap_to_non_leveraged_buy
  \/ swap_to_non_leveraged_verify
  \/ swap_to_leveraged_sell
  \/ swap_to_leveraged_buy
  \/ swap_to_leveraged_verify
  \/ BrokerFill
  \/ BrokerReject

Spec == Init /\ [][Next]_vars

\* the steps of the control loop thread that end a bounded sleep or follow a
\* call that has returned
Step ==
  \/ MainWriteState
  \/ Initializing_cancel
  \/ Initializing_read
  \/ Initializing_verify
  \/ HoldingLeveraged_process
  \/ HoldingNonLeveraged_process
  \/ swap_to_non_leveraged_sell
  \/ swap_to_non_leveraged_buy
  \/ swap_to_non_leveraged_verify
  \/ swap_to_leveraged_sell
  \/ swap_to_leveraged_buy
  \/ swap_to_leveraged_verify

\* The loop never sleeps for ever: every time.sleep is bounded, the markets
\* open again, and the broker settles the orders it holds.
FairSpec == Spec /\ WF_vars(Step) /\ WF_vars(BrokerFill)

\* ------------------------------------------------------- enum formulation

\* The loop of src/live_trading.py: trader_state is a member of State, the
\* orders of READY_TO_INVEST and INVESTED_IN_NON_LEVERAGE are limit orders
\* on the base instrument, each followed by wait_for_order_or_cancel.
\* Durations inside wait_for_order_or_cancel are in tenths of a second.

ENUM_SELL_MIN == 150
POLL_SLEEP == 11
MAX_WAIT_SECONDS == 3 * 60 * 10

\* the time a lookup takes on top of time.sleep(1.1)
Latencies == {0, 1}

EnumBasePrices == {9950, 10000}
EnumLevPrices == {5000, 5021}
EnumAccounts ==
  { [base |-> 1000, lev |-> 10, cash |-> 0],
    [base |-> 100,  lev |-> 10, cash |-> 100 * MONEY] }

\* the state that follows ORDER_FAILED, READY_TO_INVEST for INITIALIZING (a
\* variant C14 must tell from the code's assignment)
AfterOrderFailed_ready == "READY_TO_INVEST"

\* case State.ORDER_FAILED: trader_state = trader_state.INITIALIZING
AfterOrderFailed == "INITIALIZING"

\* a loop without the timeout test (a variant C37 must tell from the code's)
TimedOut_never(e) == FALSE

\* the timeout test with >= for > (a variant C15 must tell from the code's)
TimedOut_nonstrict(e) == e >= MAX_WAIT_SECONDS

\* time.time() - start > max_wait_seconds
TimedOut(e) == e > MAX_WAIT_SECONDS

\* an elapsed time above max_wait_seconds compares like max_wait_seconds + 0.1
SatWait(e) == IF e > MAX_WAIT_SECONDS + 1 THEN MAX_WAIT_SECONDS + 1 ELSE e

EnumInit ==
  /\ pc = "loop"
  /\ trader_state = "INITIALIZING"
  /\ signal_data = SignalData(0, 0, 0)
  /\ time_since_base_change = 0
  /\ \E a \in EnumAccounts :
       /\ positions = [ t \in Tickers |-> IF t = BASE_TICKER THEN a.base ELSE a.lev ]
       /\ cash = a.cash
  /\ open_orders = << >>
  /\ orders_placed = 0
  /\ initial_value = 0
  /\ cash_available = 0
  /\ crash_site = NoCrash
  /\ cycle = NoCycle
  /\ ComponentsIdle

\* the locals of wait_for_order_or_cancel are gone
WaitCleared ==
  /\ wait_id' = 0 /\ wait_elapsed' = 0 /\ wait_cancels' = 0 /\ wait_returned' = ""
  /\ wait_filled' = FALSE

\* the match statement is left with state st; next is the scheduling step
EnumEnd(st, sd, age, c) ==
  /\ trader_state' = st
  /\ signal_data' = sd
  /\ time_since_base_change' = age
  /\ pc' = "schedule"
  /\ cycle' = c
  /\ UNCHANGED << crash_site, locals >>

\* the except clause leaving the state as it is (a variant C34 must tell from
\* the assignment of ORDER_FAILED)
EnumExcept_stays(age, c) ==
  \/ EnumEnd(trader_state, signal_data, age, End(c, "order_error"))
  \/ Raise("send_message", c)

\* the except clause of an order's try block: send_message, ORDER_FAILED
EnumExcept(age, c) ==
  \/ EnumEnd("ORDER_FAILED", signal_data, age, End(c, "order_error"))
  \/ Raise("send_message", c)

\* the order id is open at the broker
Open(id) == \E i \in 1..Len(open_orders) : open_orders[i].id = id

\* open_orders without the order id
Without(id) == SelectSeq(open_orders, LAMBDA o : o.id # id)

\* What the broker answers to GET orders/{id}: 200 while the order is open,
\* 404 once it is not, or an error status at any time.
LookupAnswers(id) ==
  IF Open(id) THEN {"open", "error"} ELSE {"not_found", "error"}

\* has_order_been_filled taking every status but 200 for a fill (a variant
\* C35 must tell from the test for 404)
has_order_been_filled_not_ok(answer) == answer # "open"

\* has_order_been_filled: response.status_code == 404
has_order_been_filled(answer) == answer = "not_found"

\* the iteration's record with the answer to the last lookup of the order
Looked(c, answer) == [ c EXCEPT !.lookup = answer ]

\* INITIALIZING up to time.sleep(10): cancel_open_orders
EnumInitializing_cancel ==
  /\ pc = "loop"
  /\ trader_state = "INITIALIZING"
  /\ \/ /\ open_orders' = << >>
        /\ cycle' = Started("INITIALIZING", SignalData(0, 0, 0), 0)
        /\ Resume("enum_init_read")
        /\ UNCHANGED locals
     \/ /\ Raise("cancel_open_orders", cycle)
        /\ UNCHANGED open_orders
  /\ UNCHANGED << positions, cash, orders_placed >>
  /\ UNCHANGED components

\* INITIALIZING after time.sleep(10): the base holding above 0.15 share is
\* sold by a market order, the references are set, READY_TO_INVEST
EnumInitializing_read ==
  /\ pc = "enum_init_read"
  /\ \E bp \in EnumBasePrices, lp \in EnumLevPrices :
       LET quantity == positions[BASE_TICKER]
           payload == MarketOrderPayload("SELL", quantity - BASE_RESIDUAL, 1)
           sent == [ cycle EXCEPT !.orders =
                      Append(@, [ ticker |-> BASE_TICKER, type |-> "SELL",
                                  quantity |-> payload, accepted |-> TRUE ]) ]
       IN  \/ /\ quantity > ENUM_SELL_MIN
              /\ orders_placed < MaxOrders
              /\ open_orders' = Append(open_orders,
                                  [ ticker |-> BASE_TICKER, quantity |-> payload,
                                    id |-> orders_placed + 1 ])
              /\ orders_placed' = orders_placed + 1
              /\ UNCHANGED << positions, cash >>
              /\ \/ EnumEnd("READY_TO_INVEST", SignalData(bp, lp, 0), 0,
                            End(sent, "initialized"))
                 \/ Raise("send_message", sent)
           \/ /\ quantity > ENUM_SELL_MIN
              /\ Raise("place_market_order", cycle)
              /\ UNCHANGED broker
           \/ /\ ~(quantity > ENUM_SELL_MIN)
              /\ \/ EnumEnd("READY_TO_INVEST", SignalData(bp, lp, 0), 0,
                            End(cycle, "initialized"))
                 \/ Raise("send_message", cycle)
              /\ UNCHANGED broker
           \/ /\ Raise("get_current_positions", cycle)
              /\ UNCHANGED broker
  /\ UNCHANGED components

\* place_limit_order inside its try block, then the first statement of
\* wait_for_order_or_cancel; quantity is LimitOrder.quantity (Field(gt=0.0))
EnumPlace(type, quantity, age, c) ==
  LET payload == IF type = "BUY" THEN quantity ELSE -quantity
      sent(accepted) ==
        [ c EXCEPT !.orders =
            Append(@, [ ticker |-> BASE_TICKER, type |-> type,
                        quantity |-> payload, accepted |-> accepted ]) ]
  IN  \/ /\ quantity > 0
         /\ orders_placed < MaxOrders
         /\ open_orders' = Append(open_orders,
                             [ ticker |-> BASE_TICKER, quantity |-> payload,
                               id |-> orders_placed + 1 ])
         /\ orders_placed' = orders_placed + 1
         /\ UNCHANGED << positions, cash >>
         /\ wait_id' = orders_placed + 1
         /\ wait_elapsed' = 0
         /\ wait_cancels' = 0
         /\ wait_returned' = ""
         /\ wait_filled' = FALSE
         /\ pc' = "wait_first"
         /\ time_since_base_change' = age
         /\ cycle' = sent(TRUE)
         /\ UNCHANGED << trader_state, signal_data, crash_site, locals >>
      \/ /\ quantity > 0
         /\ EnumExcept(age, sent(FALSE))
         /\ UNCHANGED << broker, wait >>
      \/ /\ ~(quantity > 0)
         /\ EnumExcept(age, c)
         /\ UNCHANGED << broker, wait >>

\* READY_TO_INVEST: the references follow the base price; a divergence of
\* the leveraged price that has lasted buys the base instrument
EnumReadyToInvest ==
  /\ pc = "loop"
  /\ trader_state = "READY_TO_INVEST"
  /\ \E bp \in EnumBasePrices, lp \in EnumLevPrices, dt \in 0..MaxDt :
       LET age == Sat(time_since_base_change + dt)
           d == HoldingLeveraged_decide(signal_data, bp, lp, age)
           c == [ Started("READY_TO_INVEST", SignalData(0, 0, 0), 0)
                    EXCEPT !.trigger = d ]
       IN  IF d = "ZeroDivisionError"
           THEN Raise("ZeroDivisionError", c) /\ UNCHANGED << broker, wait >>
           ELSE \/ /\ d = "base_changed"
                   /\ EnumEnd("READY_TO_INVEST", SignalData(bp, lp, 0), 0,
                              End(c, "reference_reset"))
                   /\ UNCHANGED << broker, wait >>
                \/ /\ d = "none"
                   /\ EnumEnd("READY_TO_INVEST", signal_data, age,
                              End(c, "no_action"))
                   /\ UNCHANGED << broker, wait >>
                \/ /\ d = "divergence"
                   /\ \/ EnumPlace("BUY", (cash * 9) \div (bp * 10), age, c)
                      \/ /\ \E site \in {"fetch_account_cash", "send_message"} :
                              Raise(site, c)
                         /\ UNCHANGED << broker, wait >>
  /\ UNCHANGED << decide, gate, limiter, sched, call >>

\* INVESTED_IN_NON_LEVERAGE up to time.sleep(2): a change of the base price
\* resets the references and opens the sale
EnumInvested ==
  /\ pc = "loop"
  /\ trader_state = "INVESTED_IN_NON_LEVERAGE"
  /\ \E bp \in EnumBasePrices, lp \in EnumLevPrices :
       LET c == Started("INVESTED_IN_NON_LEVERAGE", SignalData(0, 0, 0), 0)
       IN  \/ /\ bp # signal_data.base_value_at_last_change
              /\ \/ /\ pc' = "enum_sell"
                    /\ signal_data' = SignalData(bp, lp, 0)
                    /\ time_since_base_change' = 0
                    /\ cycle' = [ c EXCEPT !.base_position = Position(BASE_TICKER, bp) ]
                    /\ UNCHANGED << trader_state, crash_site, locals >>
                 \/ Raise("send_message", c)
           \/ /\ bp = signal_data.base_value_at_last_change
              /\ EnumEnd("INVESTED_IN_NON_LEVERAGE", signal_data,
                         time_since_base_change, End(c, "no_action"))
  /\ UNCHANGED << broker, components >>

\* INVESTED_IN_NON_LEVERAGE after time.sleep(2): the limit sell of the
\* quantity read at the start of the iteration, less 0.1 share
EnumInvested_sell ==
  /\ pc = "enum_sell"
  /\ EnumPlace("SELL", cycle.base_position.quantity - BASE_RESIDUAL,
               time_since_base_change, Forget(cycle))
  /\ UNCHANGED << decide, gate, limiter, sched, call >>

\* The call returns r (or raises) after e tenths of a second, and the
\* caller's try block goes on: the state of a filled order, ORDER_FAILED for
\* one not filled, each followed by a send_message; an exception of the call
\* or of that send_message enters the except clause (send_message, then
\* ORDER_FAILED), whose own send_message is outside any try.
WaitReturnWith(c0, r, e) ==
  LET age == Sat(time_since_base_change + (e \div 600))
      filled == IF trader_state = "READY_TO_INVEST"
                THEN "INVESTED_IN_NON_LEVERAGE" ELSE "INITIALIZING"
      c == [ c0 EXCEPT !.trigger = r ]
  IN  \/ /\ wait_returned' = r
         /\ wait_elapsed' = e
         /\ UNCHANGED << wait_id, wait_filled >>
         /\ \/ /\ r = "True"
               /\ EnumEnd(filled, signal_data, age, End(c, "filled"))
            \/ /\ r = "False"
               /\ EnumEnd("ORDER_FAILED", signal_data, age, End(c, "not_filled"))
            \/ EnumEnd("ORDER_FAILED", signal_data, age, End(c, "order_error"))
      \/ /\ wait_returned' = ""
         /\ wait_elapsed' = 0
         /\ wait_id' = 0
         /\ wait_filled' = FALSE
         /\ Raise("send_message", c)

\* the call returns r after a lookup that raised, or after the timeout
WaitReturn(r, e) == WaitReturnWith(cycle, r, e)

\* the first has_order_been_filled(id), before start = time.time()
WaitFirst ==
  /\ pc = "wait_first"
  /\ \/ \E answer \in LookupAnswers(wait_id) :
          IF has_order_been_filled(answer)
          THEN WaitReturnWith(Looked(cycle, answer), "True", 0)
          ELSE /\ Resume("wait_poll")
               /\ cycle' = Looked(cycle, answer)
               /\ UNCHANGED << wait, locals >>
     \/ WaitReturn("raised", 0)
  /\ UNCHANGED << broker, wait_cancels, decide, gate, limiter, sched, call >>

\* the has_order_been_filled(id) of the while loop, up to time.sleep(1.1)
WaitPoll ==
  /\ pc = "wait_poll"
  /\ \/ \E answer \in LookupAnswers(wait_id) :
          IF has_order_been_filled(answer)
          THEN WaitReturnWith(Looked(cycle, answer), "True", wait_elapsed)
          ELSE /\ Resume("wait_sleep")
               /\ cycle' = Looked(cycle, answer)
               /\ UNCHANGED << wait, locals >>
     \/ WaitReturn("raised", wait_elapsed)
  /\ UNCHANGED << broker, wait_cancels, decide, gate, limiter, sched, call >>

\* a DELETE orders/{id} answered 2xx whatever became of the order (a
\* variant C36 must tell from the broker's answer)
Cancels_any(id) == TRUE

\* DELETE orders/{id} is answered 2xx for an order that is open, and with an
\* error status (raise_for_status) for one the broker no longer has
Cancels(id) == Open(id)

\* after time.sleep(1.1): the timeout test, and on a timeout
\* cancel_order_by_id: the DELETE is answered 200 (the order is cancelled),
\* another 2xx (cancelled, assert success fails) or with an error status
\* (raise_for_status)
WaitSleep ==
  /\ pc = "wait_sleep"
  /\ \E l \in Latencies :
       LET e == SatWait(wait_elapsed + POLL_SLEEP + l)
       IN  IF TimedOut(e)
           THEN /\ wait_cancels' = wait_cancels + 1
                /\ \/ /\ Cancels(wait_id)
                      /\ open_orders' = Without(wait_id)
                      /\ \/ WaitReturn("False", e)
                         \/ WaitReturn("raised", e)
                   \/ /\ open_orders' = open_orders
                      /\ WaitReturn("raised", e)
           ELSE /\ Resume("wait_poll")
                /\ wait_elapsed' = e
                /\ UNCHANGED << wait_id, wait_cancels, wait_returned,
                                wait_filled, locals, cycle, open_orders >>
  /\ UNCHANGED << positions, cash, orders_placed, decide, gate, limiter, sched, call >>

\* ORDER_FAILED: send_message, then the state of AfterOrderFailed
EnumOrderFailed ==
  /\ pc = "loop"
  /\ trader_state = "ORDER_FAILED"
  /\ LET c == Started("ORDER_FAILED", SignalData(0, 0, 0), 0)
     IN  \/ EnumEnd(AfterOrderFailed, signal_data, time_since_base_change,
                    End(c, "reinitialize"))
         \/ Raise("send_message", c)
  /\ UNCHANGED << broker, components >>

\* the scheduling step that ends an iteration: sleep until next_run
EnumSchedule ==
  /\ pc = "schedule"
  /\ pc' = "loop"
  /\ cycle' = NoCycle
  /\ WaitCleared
  /\ UNCHANGED << trader_state, signal_data, time_since_base_change, broker,
                  locals, crash_site, decide, gate, limiter, sched, call >>

EnumNext ==
  \/ BrokerFill
  \/ BrokerReject
  \/ MainRaise
  \/ MarketsClosed
  \/ EnumInitializing_cancel
  \/ EnumInitializing_read
  \/ EnumReadyToInvest
  \/ EnumInvested
  \/ EnumInvested_sell
  \/ WaitFirst
  \/ WaitPoll
  \/ WaitSleep
  \/ EnumOrderFailed
  \/ EnumSchedule

EnumSpec == EnumInit /\ [][EnumNext]_vars

\* a step of wait_for_order_or_cancel
WaitStep == WaitFirst \/ WaitPoll \/ WaitSleep

\* the engine started on an account that holds the base instrument
EnumFairInit == EnumInit /\ positions[BASE_TICKER] > ENUM_SELL_MIN /\ cash = 0

\* The call runs in the engine's only thread: each lookup or cancel request
\* is answered and each time.sleep(1.1) returns, so its next step is
\* eventually taken.
EnumFairSpec == EnumFairInit /\ [][EnumNext]_vars /\ WF_vars(WaitStep)

\* ------------------------------------------------------ tradability gate

\* are_positions_tradeable(exchanges, instruments, [base_position,
\* lev_position]) on any schedule data: per ticker the WorkingSchedule its
\* instrument names, with timeEvents in the order the broker lists them.
MaxDate == 3
MaxEvents == 2
EventTypes == {"OPEN", "CLOSE"}

TimeEvents == [ date : 1..MaxDate, type : EventTypes ]

\* lists of at most MaxEvents events with distinct dates, in any order
EventLists ==
  { l \in UNION { [ 1..n -> TimeEvents ] : n \in 0..MaxEvents } :
      \A i, j \in 1..Len(l) : (i # j) => l[i].date # l[j].date }

Schedules ==
  { Schedule(FALSE, FALSE, << >>), Schedule(TRUE, FALSE, << >>) }
    \cup { Schedule(TRUE, TRUE, l) : l \in EventLists }

\* [t for t in timeEvents if t.date < now]
Before(timeEvents, now) == SelectSeq(timeEvents, LAMBDA t : t.date < now)

\* is_exchange_open: None, True, False, or the IndexError of [...][-1]
is_exchange_open(w, now) ==
  IF ~w.has_events \/ w.timeEvents = << >> THEN "None"
  ELSE LET before == Before(w.timeEvents, now)
       IN  IF before = << >> THEN "IndexError"
           ELSE IF before[Len(before)].type = "OPEN" THEN "True" ELSE "False"

\* are_positions_tradeable: the KeyError of workingSchedules[id], the
\* exception of an is_exchange_open call, or all([...])
are_positions_tradeable(g) ==
  IF \E t \in Tickers : ~g.workingSchedules[t].known THEN "KeyError"
  ELSE IF \E t \in Tickers :
            is_exchange_open(g.workingSchedules[t], g.now) = "IndexError"
       THEN "IndexError"
  ELSE IF \A t \in Tickers :
            is_exchange_open(g.workingSchedules[t], g.now) = "True"
       THEN "True"
  ELSE "False"

GateInit ==
  /\ gate_input \in [ now : 2..MaxDate, workingSchedules : [ Tickers -> Schedules ] ]
  /\ gate_result = ""
  /\ pc = "loop"
  /\ trader_state = "Initializing"
  /\ signal_data = SignalData(0, 0, 0)
  /\ time_since_base_change = 0
  /\ positions = [ t \in Tickers |-> 0 ]
  /\ cash = 0
  /\ open_orders = << >>
  /\ orders_placed = 0
  /\ initial_value = 0
  /\ cash_available = 0
  /\ crash_site = NoCrash
  /\ cycle = NoCycle
  /\ DecideIdle
  /\ WaitIdle
  /\ LimiterIdle
  /\ SchedIdle
  /\ CallIdle

\* the call is made
GateCall ==
  /\ gate_result = ""
  /\ gate_result' = are_positions_tradeable(gate_input)
  /\ UNCHANGED << gate_input, program, decide, wait, limiter, sched, call >>

GateSpec == GateInit /\ [][GateCall]_vars

\* ------------------------------------------------------------ rate limiter

\* RateLimiter of sp500_bot/t212.py, called by one thread, with two of the
\* endpoints of LIMITS and a key that is not in it.  Times are in tenths of
\* a second; time.time() does not go backwards and time.sleep(t) sleeps t
\* or longer.
LIMITS == [ orders_market |-> 12, order_by_id |-> 10 ]
Endpoints == DOMAIN LIMITS \cup {"unknown_endpoint"}

\* time.time() when the module is imported, and the time modelled after it
Epoch == 1000
MaxTime == 30
\* how much longer than asked time.sleep may sleep
MaxOversleep == 1

\* wait_time one tenth short (a variant C18 must tell from the code's)
WaitTime_short(limit, elapsed) == limit - elapsed - 1

\* wait_time = limit - elapsed
WaitTime(limit, elapsed) == limit - elapsed

\* self._last_call[endpoint] = t
Recorded(endpoint, t) ==
  [ e \in DOMAIN last_call \cup {endpoint} |-> IF e = endpoint THEN t ELSE last_call[e] ]

\* self._last_call.get(endpoint, 0.0)
LastCall(endpoint) == IF endpoint \in DOMAIN last_call THEN last_call[endpoint] ELSE 0

\* RateLimiter.wait that gives a key outside LIMITS the limit 0 (a variant
\* C19 must tell from the early return)
RateLimiter_wait_any(endpoint) ==
  /\ time_now' = time_now
  /\ last_call' = Recorded(endpoint, time_now)
  /\ limiter_call' = [ endpoint |-> endpoint, last |-> LastCall(endpoint), slept |-> 0 ]

\* RateLimiter.wait(endpoint)
RateLimiter_wait(endpoint) ==
  IF endpoint \notin DOMAIN LIMITS
  THEN /\ limiter_call' = [ endpoint |-> endpoint, last |-> 0, slept |-> 0 ]
       /\ UNCHANGED << time_now, last_call >>
  ELSE LET limit == LIMITS[endpoint]
           last == LastCall(endpoint)
           elapsed == time_now - last
           wait_time == WaitTime(limit, elapsed)
       IN  \E over \in 0..MaxOversleep :
             LET slept == IF wait_time > 0 THEN wait_time + over ELSE 0
             IN  /\ time_now + slept <= Epoch + MaxTime
                 /\ time_now' = time_now + slept
                 /\ last_call' = Recorded(endpoint, time_now + slept)
                 /\ limiter_call' = [ endpoint |-> endpoint, last |-> last,
                                      slept |-> slept ]

LimiterInit ==
  /\ time_now = Epoch
  /\ last_call = [ e \in {} |-> 0 ]
  /\ limiter_call = NoLimiterCall
  /\ pc = "loop"
  /\ trader_state = "Initializing"
  /\ signal_data = SignalData(0, 0, 0)
  /\ time_since_base_change = 0
  /\ positions = [ t \in Tickers |-> 0 ]
  /\ cash = 0
  /\ open_orders = << >>
  /\ orders_placed = 0
  /\ initial_value = 0
  /\ cash_available = 0
  /\ crash_site = NoCrash
  /\ cycle = NoCycle
  /\ DecideIdle
  /\ WaitIdle
  /\ GateIdle
  /\ SchedIdle
  /\ CallIdle

\* a function of t212.py calls _rate_limiter.wait with its endpoint
LimiterWait ==
  /\ \E endpoint \in Endpoints : RateLimiter_wait(endpoint)
  /\ UNCHANGED << program, decide, wait, gate, sched, call >>

\* time passes between two calls
LimiterTick ==
  /\ time_now < Epoch + MaxTime
  /\ time_now' = time_now + 1
  /\ limiter_call' = NoLimiterCall
  /\ UNCHANGED << last_call, program, decide, wait, gate, sched, call >>

LimiterNext == LimiterWait \/ LimiterTick

LimiterSpec == LimiterInit /\ [][LimiterNext]_vars

\* ------------------------------------------------------------- scheduling

\* The timing of main's loop (sp500_bot/live_trading.py 676, 689-732; the
\* same statements end the loop of src/live_trading.py): an iteration that
\* finds the markets closed sleeps 300 s and continues; a processed
\* iteration takes some time and ends with the scheduling step.  Times are
\* in seconds.
INTERVAL == 20
CLOSED_SLEEP_SECONDS == CLOSED_SLEEP * 60

\* how long the processing of an iteration may take
Durations == {5, 19, 20, 25}
\* the time modelled
MaxSchedTime == 400

\* next_run after the scheduling step, without the reset of an iteration
\* that is behind schedule (a variant C20 must tell from the code's)
Rescheduled_no_reset(next, t) == next + INTERVAL

\* next_run after the scheduling step that reads the time t
Rescheduled(next, t) ==
  IF (next + INTERVAL) - t > 0 THEN next + INTERVAL ELSE t

SchedInit ==
  /\ SchedIdle
  /\ pc = "loop"
  /\ trader_state = "Initializing"
  /\ signal_data = SignalData(0, 0, 0)
  /\ time_since_base_change = 0
  /\ positions = [ t \in Tickers |-> 0 ]
  /\ cash = 0
  /\ open_orders = << >>
  /\ orders_placed = 0
  /\ initial_value = 0
  /\ cash_available = 0
  /\ crash_site = NoCrash
  /\ cycle = NoCycle
  /\ DecideIdle
  /\ WaitIdle
  /\ GateIdle
  /\ LimiterIdle
  /\ CallIdle

\* the markets are not all open: time.sleep(300), continue
SchedClosed ==
  /\ sched_pc = "loop"
  /\ sched_now + CLOSED_SLEEP_SECONDS <= MaxSchedTime
  /\ sched_now' = sched_now + CLOSED_SLEEP_SECONDS
  /\ sched_cycle' = [ sched_cycle EXCEPT !.slept = TRUE, !.reset = FALSE ]
  /\ UNCHANGED << sched_pc, next_run >>
  /\ UNCHANGED << program, decide, wait, gate, limiter, call >>

\* the iteration is processed, up to write_state
SchedProcess ==
  /\ sched_pc = "loop"
  /\ \E d \in Durations :
       /\ sched_now + d <= MaxSchedTime
       /\ sched_now' = sched_now + d
  /\ sched_pc' = "schedule"
  /\ sched_cycle' = [ sched_cycle EXCEPT !.before = next_run, !.reset = FALSE ]
  /\ UNCHANGED next_run
  /\ UNCHANGED << program, decide, wait, gate, limiter, call >>

\* next_run += INTERVAL; sleep_time = next_run - time.time(); up to
\* time.sleep(sleep_time), or next_run = time.time()
SchedNextRun ==
  /\ sched_pc = "schedule"
  /\ next_run' = Rescheduled(next_run, sched_now)
  /\ IF (next_run + INTERVAL) - sched_now > 0
     THEN /\ sched_pc' = "sleep"
          /\ UNCHANGED sched_cycle
     ELSE /\ sched_pc' = "loop"
          /\ sched_cycle' = [ sched_cycle EXCEPT !.prev_end = sched_now,
                                                 !.slept = FALSE, !.reset = TRUE ]
  /\ UNCHANGED sched_now
  /\ UNCHANGED << program, decide, wait, gate, limiter, call >>

\* time.sleep(sleep_time) returns, at next_run or later
SchedSleep ==
  /\ sched_pc = "sleep"
  /\ \E over \in 0..MaxOversleep :
       /\ next_run + over <= MaxSchedTime
       /\ sched_now' = next_run + over
       /\ sched_cycle' = [ sched_cycle EXCEPT !.prev_end = next_run + over,
                                              !.slept = TRUE, !.reset = FALSE ]
  /\ sched_pc' = "loop"
  /\ UNCHANGED next_run
  /\ UNCHANGED << program, decide, wait, gate, limiter, call >>

SchedNext == SchedClosed \/ SchedProcess \/ SchedNextRun \/ SchedSleep

SchedSpec == SchedInit /\ [][SchedNext]_vars

\* ------------------------------------------- a holding state's process alone

\* The decision of HoldingLeveraged.process and HoldingNonLeveraged.process
\* on any SignalData, the seed SignalData(0, 0, 0) included.
DecideStates == {"HoldingLeveraged", "HoldingNonLeveraged"}
DecideReferences == {0, 9950, 10000}
DecideLevReferences == {0, 5000}

DecideInit ==
  /\ decision_input \in
       [ state : DecideStates,
         sd    : { SignalData(b, l, e) : b \in DecideReferences,
                                         l \in DecideLevReferences,
                                         e \in DecideReferences },
         base  : BasePrices,
         lev   : LevPrices \cup {0},
         age   : 0..(TIME_DIFF_INVEST + 1) ]
  /\ decision = ""
  /\ pc = "loop"
  /\ trader_state = "Initializing"
  /\ signal_data = SignalData(0, 0, 0)
  /\ time_since_base_change = 0
  /\ positions = [ t \in Tickers |-> 0 ]
  /\ cash = 0
  /\ open_orders = << >>
  /\ orders_placed = 0
  /\ initial_value = 0
  /\ cash_available = 0
  /\ crash_site = NoCrash
  /\ cycle = NoCycle
  /\ WaitIdle
  /\ GateIdle
  /\ LimiterIdle
  /\ SchedIdle
  /\ CallIdle

\* process runs up to the branch it takes; a ZeroDivisionError leaves it
Decide ==
  /\ decision = ""
  /\ decision' = Holding_decide(decision_input.state, decision_input.sd,
                                decision_input.base, decision_input.lev,
                                decision_input.age)
  /\ UNCHANGED << decision_input, program, wait, gate, limiter, sched, call >>

DecideSpec == DecideInit /\ [][Decide]_vars

\* ------------------------------------------------------------------ properties

HoldingStates == {"HoldingLeveraged", "HoldingNonLeveraged"}

\* process has returned and main has assigned trader_state
Returned == pc = "write_state"

\* the state reached by the step that took the branch decision of process
JustDecided == cycle.base_position # NoPosition

\* the account holds more of t than the residual a sell leg keeps
InvestedIn(t) == positions[t] > Residual(t)

\* the orders of the iteration that are of the given type
OrdersOfType(type) == SelectSeq(cycle.orders, LAMBDA o : o.type = type)

\* C1: at the end of every control-loop cycle at most one of the two
\* positions has a quantity above its retained residual (0.1 share base,
\* 0.01 share leveraged), whatever account Initializing found.
C1_NeverInvestedInBoth ==
  Returned => ~(InvestedIn(BASE_TICKER) /\ InvestedIn(LEV_TICKER))

\* a swap has returned with its sell leg verified and its buy leg not, and
\* the account holds no more than the residual of either instrument
CashIdleAfterSell ==
  /\ Returned
  /\ cycle.sell_verified
  /\ ~cycle.buy_verified
  /\ ~InvestedIn(BASE_TICKER)
  /\ ~InvestedIn(LEV_TICKER)

\* C2: a cash-only condition left by the sell leg of a swap is ended: the
\* account is invested again later (or the interpreter has ended).
C2_CashIdleEnds ==
  CashIdleAfterSell ~> (InvestedIn(BASE_TICKER) \/ InvestedIn(LEV_TICKER) \/ pc = "crashed")

\* C3: a swap that returns without both of its legs verified returns the
\* state it was started from with the signal data (prices, entry price and
\* time of the last base change) it had, and has sent nothing after the leg
\* that failed: no buy when the sell was not verified or no cash was found,
\* and never more than one sell and one buy in the cycle.
C3_UnverifiedLegStaysPut ==
  (/\ Returned
   /\ cycle.trigger \in SwapTriggers
   /\ ~(cycle.sell_verified /\ cycle.buy_verified))
  => /\ cycle.state \in HoldingStates
     /\ trader_state = cycle.state
     /\ signal_data = cycle.sd
     /\ time_since_base_change = cycle.age
     /\ Len(OrdersOfType("SELL")) <= 1
     /\ Len(OrdersOfType("BUY")) <= 1
     /\ (cycle.exit \in {"sell_unverified", "no_cash"}
           => OrdersOfType("BUY") = << >>)
     /\ (~cycle.sell_verified => OrdersOfType("BUY") = << >>)

\* C3 happens: a swap from HoldingLeveraged whose sell leg was verified and
\* whose buy leg was not has returned
C3_BuyUnverifiedReturned ==
  /\ Returned
  /\ cycle.state = "HoldingLeveraged"
  /\ cycle.exit = "buy_unverified"
  /\ cycle.sell_verified
  /\ Len(cycle.orders) = 2

\* the steps of process that place an order or verify one
OrderSteps == {"init_verify", "swap_sell", "swap_verify_sell", "swap_verify_buy"}

\* C4: no error raised while an order is placed or verified (the re-reads of
\* positions and cash included) leaves process: the interpreter is never
\* ended by such a call.
C4_OrderErrorsCaught ==
  ~(/\ pc = "crashed"
    /\ crash_site.step \in OrderSteps
    /\ crash_site.call \in {"get_current_positions", "fetch_account_summary"})

\* what the branch decision read, and the reference it compared with
ReadBase == cycle.base_position.currentPrice
ReadLev == cycle.lev_position.currentPrice
RefBase == cycle.sd.base_value_at_last_change
RefLev == cycle.sd.lev_value_at_last_change
Entry == cycle.sd.position_entry_price

\* levDivergence = (lev - refLev) / refLev against the threshold 0.004
LevDivergenceAbove == (ReadLev - RefLev) * RATIO_DEN > LEV_DIFF_INVEST_NUM * RefLev
LevDivergenceAtThreshold == (ReadLev - RefLev) * RATIO_DEN = LEV_DIFF_INVEST_NUM * RefLev
LevDivergenceBelow == (ReadLev - RefLev) * RATIO_DEN < -(LEV_DIFF_INVEST_NUM * RefLev)
LevDivergenceAtNegThreshold ==
  (ReadLev - RefLev) * RATIO_DEN = -(LEV_DIFF_INVEST_NUM * RefLev)

\* base price against entryPrice * (1 - stopLossThreshold)
BelowStopLossPrice ==
  ReadBase * RATIO_DEN < Entry * (RATIO_DEN - STOP_LOSS_THRESHOLD_NUM)

\* process has entered a swap: it sleeps in front of the sell leg
SwapInitiated == pc = "swap_sell" /\ cycle.orders = << >>

\* the decision of a holding state with the base price unchanged
DecidedUnchanged(s) == JustDecided /\ cycle.state = s /\ ReadBase = RefBase

\* C5 as claimed: in HoldingLeveraged with the base price equal to the
\* reference, the leveraged divergence above 0.004 and an elapsed time of at
\* least 2 minutes, process initiates the swap.
C5_SwapWhenDwellAtLeast ==
  (/\ DecidedUnchanged("HoldingLeveraged")
   /\ LevDivergenceAbove
   /\ cycle.age >= TIME_DIFF_INVEST)
  => (cycle.trigger = "divergence" /\ SwapInitiated)

\* C5 amended: in HoldingLeveraged with the base price equal to the
\* reference, the leveraged divergence above 0.004 and an elapsed time of
\* more than 2 minutes, process initiates the swap; and a swap from
\* HoldingLeveraged whose two legs are verified returns HoldingNonLeveraged.
C5_SwapWhenDwellExceeded ==
  /\ (/\ DecidedUnchanged("HoldingLeveraged")
      /\ LevDivergenceAbove
      /\ cycle.age > TIME_DIFF_INVEST)
     => (cycle.trigger = "divergence" /\ SwapInitiated)
  /\ (/\ Returned
      /\ cycle.state = "HoldingLeveraged"
      /\ cycle.sell_verified
      /\ cycle.buy_verified)
     => trader_state = "HoldingNonLeveraged"

\* C5 happens: the swap started by a divergence of 0.0042 (50.21 against
\* 50.00) has returned with both legs verified
C5_SwapCompleted ==
  /\ Returned
  /\ cycle.state = "HoldingLeveraged"
  /\ cycle.trigger = "divergence"
  /\ RefLev = 5000
  /\ cycle.age > TIME_DIFF_INVEST
  /\ cycle.sell_verified
  /\ cycle.buy_verified
  /\ trader_state = "HoldingNonLeveraged"

\* C6: HoldingLeveraged starts a swap only if levDivergence > 0.004 and the
\* divergence trigger of HoldingNonLeveraged fires only if levDivergence <
\* -0.004; a divergence equal to the threshold (or its negative) does not
\* fire; one strictly beyond it fires when the base price is unchanged and
\* the dwell time has passed.
C6_StrictThreshold ==
  JustDecided =>
    /\ (cycle.state = "HoldingLeveraged" /\ cycle.trigger \in SwapTriggers)
         => LevDivergenceAbove
    /\ (cycle.state = "HoldingNonLeveraged" /\ cycle.trigger = "divergence")
         => LevDivergenceBelow
    /\ (cycle.state = "HoldingLeveraged" /\ LevDivergenceAtThreshold)
         => cycle.trigger \notin SwapTriggers
    /\ (cycle.state = "HoldingNonLeveraged" /\ LevDivergenceAtNegThreshold)
         => cycle.trigger # "divergence"
    /\ (/\ DecidedUnchanged("HoldingLeveraged")
        /\ LevDivergenceAbove
        /\ cycle.age > TIME_DIFF_INVEST)
         => cycle.trigger = "divergence"
    /\ (/\ DecidedUnchanged("HoldingNonLeveraged")
        /\ LevDivergenceBelow
        /\ cycle.age > TIME_DIFF_INVEST)
         => cycle.trigger = "divergence"

\* C6 happens: HoldingLeveraged has decided on a divergence of exactly 0.004
\* after the dwell time, and has not started a swap
C6_AtThresholdNoSwap ==
  /\ DecidedUnchanged("HoldingLeveraged")
  /\ LevDivergenceAtThreshold
  /\ cycle.age > TIME_DIFF_INVEST
  /\ cycle.trigger = "none"
  /\ Returned

\* C7: in either holding state, with the base price unchanged, a divergence
\* beyond the threshold within less than the dwell minimum since the last
\* reset causes no transition and no order: process returns the same state
\* with the same signal data; no divergence trigger is taken at an age that
\* does not exceed the dwell minimum; and a reset of the reference (base
\* price change) sets the new reference to the prices read and its age to 0.
C7_DwellGuard ==
  /\ (/\ JustDecided
      /\ cycle.state \in HoldingStates
      /\ ReadBase = RefBase
      /\ (LevDivergenceAbove \/ LevDivergenceBelow)
      /\ cycle.age < TIME_DIFF_INVEST)
     => /\ cycle.trigger = "none"
        /\ Returned
        /\ trader_state = cycle.state
        /\ signal_data = cycle.sd
        /\ cycle.orders = << >>
  /\ (pc # "crashed" /\ cycle.trigger = "divergence")
     => cycle.age > TIME_DIFF_INVEST
  /\ (JustDecided /\ cycle.trigger = "base_changed")
     => /\ Returned
        /\ trader_state = cycle.state
        /\ time_since_base_change = 0
        /\ signal_data.base_value_at_last_change = ReadBase
        /\ signal_data.lev_value_at_last_change = ReadLev

\* C7 happens: HoldingLeveraged has decided on a divergence above the
\* threshold less than 2 minutes after the last reset, and has stayed
C7_DivergedTooEarly ==
  /\ DecidedUnchanged("HoldingLeveraged")
  /\ LevDivergenceAbove
  /\ cycle.age < TIME_DIFF_INVEST
  /\ cycle.trigger = "none"
  /\ Returned

\* C8: HoldingNonLeveraged.process takes take-profit whenever the base price
\* is above the entry price, else stop-loss whenever the base price is below
\* the stop-loss price; it takes the divergence trigger only when neither
\* holds (and the divergence is below -0.004 past the dwell time); the
\* trigger taken initiates the swap, and a cycle sends at most one sell and
\* one buy.
C8_TriggerPriority ==
  /\ (JustDecided /\ cycle.state = "HoldingNonLeveraged")
     => /\ (ReadBase > Entry) => cycle.trigger = "take_profit"
        /\ (~(ReadBase > Entry) /\ BelowStopLossPrice)
             => cycle.trigger = "stop_loss"
        /\ (cycle.trigger = "divergence")
             => /\ ~(ReadBase > Entry)
                /\ ~BelowStopLossPrice
                /\ LevDivergenceBelow
                /\ cycle.age > TIME_DIFF_INVEST
        /\ (cycle.trigger \in SwapTriggers) => SwapInitiated
  /\ (cycle.state = "HoldingNonLeveraged")
     => /\ Len(OrdersOfType("SELL")) <= 1
        /\ Len(OrdersOfType("BUY")) <= 1
        /\ Len(cycle.orders) <= 2

\* C8 happens: take-profit has started the swap in a cycle in which the
\* divergence below -0.004 past the dwell time held as well
C8_TakeProfitBeforeDivergence ==
  /\ JustDecided
  /\ cycle.state = "HoldingNonLeveraged"
  /\ ReadBase > Entry
  /\ LevDivergenceBelow
  /\ cycle.age > TIME_DIFF_INVEST
  /\ cycle.trigger = "take_profit"
  /\ SwapInitiated

\* C9: in HoldingNonLeveraged the stop-loss trigger is taken if and only if
\* the base price is strictly below entryPrice * (1 - 0.005); with an entry
\* price of 100.00 a base price of 99.49 starts the swap back to leveraged
\* and one of 99.51 does not trigger stop-loss.
C9_StopLossBoundary ==
  (JustDecided /\ cycle.state = "HoldingNonLeveraged")
  => /\ (cycle.trigger = "stop_loss") <=> BelowStopLossPrice
     /\ (Entry = 10000 /\ ReadBase = 9949)
          => (cycle.trigger = "stop_loss" /\ SwapInitiated)
     /\ (Entry = 10000 /\ ReadBase = 9951) => cycle.trigger # "stop_loss"

\* C9 happens: with an entry price of 100.00 the base price 99.49 has
\* started the swap back to leveraged
C9_StopLossTaken ==
  /\ JustDecided
  /\ cycle.state = "HoldingNonLeveraged"
  /\ Entry = 10000
  /\ ReadBase = 9949
  /\ cycle.trigger = "stop_loss"
  /\ SwapInitiated

\* the values Initializing compares
InitBaseValue == Value(cycle.base_position)
InitLevValue == Value(cycle.lev_position)

\* C10: when Initializing finds the value of one position larger than the
\* value of the other position and than the idle cash, process returns the
\* holding state of that position (HoldingNonLeveraged for base,
\* HoldingLeveraged for leveraged) and sends no order in that cycle.
C10_LargestValueResumes ==
  (JustDecided /\ cycle.state = "Initializing")
  => /\ (InitBaseValue > InitLevValue /\ InitBaseValue > cycle.cash)
          => /\ Returned
             /\ trader_state = "HoldingNonLeveraged"
             /\ cycle.orders = << >>
             /\ open_orders = << >>
     /\ (InitLevValue > InitBaseValue /\ InitLevValue > cycle.cash)
          => /\ Returned
             /\ trader_state = "HoldingLeveraged"
             /\ cycle.orders = << >>
             /\ open_orders = << >>

\* C10 happens: Initializing has found the base position the largest of the
\* three and has returned HoldingNonLeveraged
C10_ResumedNonLeveraged ==
  /\ JustDecided
  /\ cycle.state = "Initializing"
  /\ InitBaseValue > InitLevValue
  /\ InitBaseValue > cycle.cash
  /\ cycle.cash > MIN_CASH * MONEY
  /\ Returned
  /\ trader_state = "HoldingNonLeveraged"

\* C11 as claimed: Initializing sends an order only when the cash is at
\* least the value of each of the two positions; the order is a market buy
\* of the leveraged instrument (never a sell, never the base instrument);
\* and after the buy it returns HoldingLeveraged only with the fill verified,
\* Initializing otherwise.
C11_BuyOnlyWhenCashDominates ==
  (cycle.state = "Initializing")
  => /\ (JustDecided /\ cycle.orders # << >>)
          => /\ cycle.cash >= InitBaseValue
             /\ cycle.cash >= InitLevValue
     /\ \A i \in 1..Len(cycle.orders) :
          /\ cycle.orders[i].type = "BUY"
          /\ cycle.orders[i].ticker = LEV_TICKER
     /\ Len(cycle.orders) <= 1
     /\ (Returned /\ cycle.orders # << >>)
          => /\ trader_state \in {"Initializing", "HoldingLeveraged"}
             /\ (trader_state = "HoldingLeveraged") <=> cycle.buy_verified

\* C12: whenever a holding state computes the divergence, and in every state
\* of a running holding state, the reference lev_value_at_last_change is a
\* price the broker reported, never the seed 0.0; no decision ends in a
\* division by zero.
C12_SeedNeverDivisor ==
  /\ (pc # "crashed" /\ trader_state \in HoldingStates)
       => signal_data.lev_value_at_last_change \in LevPrices
  /\ (JustDecided /\ cycle.state \in HoldingStates) => RefLev \in LevPrices
  /\ cycle.trigger # "ZeroDivisionError"
  /\ crash_site.call # "ZeroDivisionError"

\* C12 happens: HoldingLeveraged, resumed by Initializing, has computed the
\* divergence against the reference Initializing wrote
C12_DivergenceComputed ==
  /\ DecidedUnchanged("HoldingLeveraged")
  /\ cycle.trigger \in {"none", "divergence"}
  /\ RefLev > 0

\* the call reaches the divergence computation: no earlier branch returns
ReachesDivergence ==
  /\ decision_input.base = decision_input.sd.base_value_at_last_change
  /\ (decision_input.state = "HoldingNonLeveraged")
       => /\ ~TakeProfit(decision_input.base, decision_input.sd.position_entry_price)
          /\ ~StopLoss(decision_input.base, decision_input.sd.position_entry_price)

\* C13: a divergence computation whose reference leveraged price is 0 ends
\* in ZeroDivisionError; it never goes on to compare a quotient with the
\* threshold (neither a swap nor "no action" comes out of it).
C13_ZeroReferenceRaises ==
  (decision # "" /\ ReachesDivergence
     /\ decision_input.sd.lev_value_at_last_change = 0)
  => decision = "ZeroDivisionError"

\* C13 happens: HoldingLeveraged with a zero reference, the dwell time
\* passed and a positive price read, has raised
C13_ZeroReferenceRaised ==
  /\ decision_input.state = "HoldingLeveraged"
  /\ decision_input.sd.lev_value_at_last_change = 0
  /\ decision_input.lev > 0
  /\ DwellPassed(decision_input.age)
  /\ ReachesDivergence
  /\ decision = "ZeroDivisionError"

\* C14: in the enum formulation a step never takes trader_state from
\* ORDER_FAILED to anything but INITIALIZING, and the iteration that
\* processes ORDER_FAILED ends in INITIALIZING without an order placed or
\* cancelled.
C14_OrderFailedReinitializes ==
  [][ (trader_state = "ORDER_FAILED")
      => /\ trader_state' \in {"ORDER_FAILED", "INITIALIZING"}
         /\ (pc = "loop" /\ pc' = "schedule")
              => /\ trader_state' = "INITIALIZING"
                 /\ orders_placed' = orders_placed
                 /\ open_orders' = open_orders
                 /\ cycle'.orders = << >>
                 /\ wait_cancels' = 0 ]_vars

\* C14 happens: an iteration has processed ORDER_FAILED
C14_Reinitialized ==
  /\ pc = "schedule"
  /\ cycle.state = "ORDER_FAILED"
  /\ trader_state = "INITIALIZING"

\* wait_for_order_or_cancel has ended and its caller has assigned the state
WaitEnded == pc = "schedule" /\ wait_returned # ""

\* the call ended after more than max_wait_seconds of polling
WaitTimedOut == wait_elapsed > MAX_WAIT_SECONDS

\* C15 as claimed: a call that ends after more than max_wait_seconds without
\* a "not found" answer has sent exactly one cancel request and returned
\* False; a cancel request is sent only then, never by a call that returns
\* True.
C15_TimeoutCancelsAndReturnsFalse ==
  /\ (pc \in {"wait_first", "wait_poll", "wait_sleep"}) => wait_cancels = 0
  /\ WaitEnded
       => /\ WaitTimedOut => (wait_cancels = 1 /\ wait_returned = "False")
          /\ (wait_cancels > 0) => WaitTimedOut
          /\ (wait_returned = "True") => wait_cancels = 0

\* C15 amended: such a call has sent exactly one cancel request and has
\* returned False if the broker answered it with 200, and has raised
\* otherwise; it returns False in no other case, a cancel request is sent
\* only on the timeout, never by a call that returns True.
C15_TimeoutCancelsOnce ==
  /\ (pc \in {"wait_first", "wait_poll", "wait_sleep"})
       => (wait_cancels = 0 /\ ~WaitTimedOut)
  /\ WaitEnded
       => /\ WaitTimedOut
               => (wait_cancels = 1 /\ wait_returned \in {"False", "raised"})
          /\ (wait_returned = "False") => (WaitTimedOut /\ wait_cancels = 1)
          /\ (wait_cancels > 0) => WaitTimedOut
          /\ (wait_returned = "True") => wait_cancels = 0

\* C15 happens: the order stayed open for more than max_wait_seconds, the
\* call has cancelled it and returned False
C15_CancelledOnTimeout ==
  /\ WaitEnded
  /\ wait_returned = "False"
  /\ wait_cancels = 1
  /\ ~Open(wait_id)
  /\ trader_state = "ORDER_FAILED"

\* schedule data is missing for ticker t: its working schedule cannot be
\* resolved, has no time events, or has no event before now
ScheduleMissing(t) ==
  LET w == gate_input.workingSchedules[t]
  IN  \/ ~w.known
      \/ ~w.has_events
      \/ Before(w.timeEvents, gate_input.now) = << >>

\* C16 as claimed: with schedule data missing for a position,
\* are_positions_tradeable returns False and does not raise.
C16_MissingScheduleNotTradeable ==
  (gate_result # "" /\ \E t \in Tickers : ScheduleMissing(t))
  => gate_result = "False"

\* the instrument of t is open by its most recent event before now: the
\* event of greatest date below now is of type OPEN
OpenAtLatestEvent(t) ==
  LET w == gate_input.workingSchedules[t]
  IN  \E i \in 1..Len(w.timeEvents) :
        /\ w.timeEvents[i].date < gate_input.now
        /\ w.timeEvents[i].type = "OPEN"
        /\ \A j \in 1..Len(w.timeEvents) :
             (w.timeEvents[j].date < gate_input.now)
               => w.timeEvents[j].date <= w.timeEvents[i].date

\* C17 as claimed: whatever the order of the event lists, a result of
\* are_positions_tradeable is True iff, for every position, the event of
\* greatest date strictly before now is of type OPEN.
C17_LatestEventDecides ==
  (gate_result \in {"True", "False"})
  => ((gate_result = "True") <=> \A t \in Tickers : OpenAtLatestEvent(t))

\* a RateLimiter.wait call for a key of LIMITS has just returned
LimitedCallReturned == limiter_call.endpoint \in DOMAIN LIMITS

\* C18: when wait(key) returns for a key of LIMITS, at least LIMITS[key]
\* has elapsed since the time last recorded for the key, and the time of the
\* return is the one recorded for it: two successive recorded times of an
\* endpoint are at least LIMITS[key] apart.
C18_CallsSpaced ==
  LimitedCallReturned
  => /\ time_now - limiter_call.last >= LIMITS[limiter_call.endpoint]
     /\ limiter_call.endpoint \in DOMAIN last_call
     /\ last_call[limiter_call.endpoint] = time_now

\* C18 happens: a second call of an endpoint came too early and has slept
C18_SecondCallWaited ==
  /\ LimitedCallReturned
  /\ limiter_call.last >= Epoch
  /\ limiter_call.slept > 0

\* C19: a step in which wait returns for a key that is not in LIMITS leaves
\* the clock (no sleep) and the table of recorded times as they were.
C19_UnknownKeyNoEffect ==
  [][ (limiter_call'.endpoint \in (Endpoints \ DOMAIN LIMITS))
      => /\ time_now' = time_now
         /\ last_call' = last_call ]_vars

\* C19 happens: wait has returned for the unknown key while the table holds
\* a recorded time
C19_UnknownKeyReturned ==
  /\ limiter_call.endpoint = "unknown_endpoint"
  /\ limiter_call.slept = 0
  /\ DOMAIN last_call # {}
  /\ "unknown_endpoint" \notin DOMAIN last_call

\* the scheduling step of a processed iteration has just set next_run
JustScheduled == sched_pc = "sleep" \/ sched_cycle.reset

\* C20: when the scheduling step of a processed iteration has set next_run,
\* next_run is the old value plus INTERVAL if that lies ahead and the
\* current time otherwise, so it is never earlier than the current time;
\* and no backlog runs as a burst: an iteration that starts without any
\* sleep after the one before it and ends less than INTERVAL later sleeps.
C20_MissedTicksSkipped ==
  /\ JustScheduled => next_run >= sched_now
  /\ (sched_pc = "sleep")
       => (next_run = sched_cycle.before + INTERVAL /\ next_run > sched_now)
  /\ sched_cycle.reset
       => (next_run = sched_now /\ sched_cycle.before + INTERVAL <= sched_now)
  /\ (sched_pc = "schedule" /\ ~sched_cycle.slept
        /\ sched_now - sched_cycle.prev_end < INTERVAL)
       => next_run + INTERVAL > sched_now

\* C20 happens: an iteration that started more than INTERVAL behind next_run
\* (the markets had been closed) has reset next_run to the current time
C20_ResetAfterMissedTicks ==
  /\ sched_cycle.reset
  /\ sched_now - sched_cycle.before > 2 * INTERVAL
  /\ next_run = sched_now

\* ------------------------------------------------- functions on their own

\* main before its first iteration, with no account read
ProgramIdle ==
  /\ pc = "loop"
  /\ trader_state = "Initializing"
  /\ signal_data = SignalData(0, 0, 0)
  /\ time_since_base_change = 0
  /\ positions = [ t \in Tickers |-> 0 ]
  /\ cash = 0
  /\ open_orders = << >>
  /\ orders_placed = 0
  /\ initial_value = 0
  /\ cash_available = 0
  /\ crash_site = NoCrash
  /\ cycle = NoCycle

\* datetime.now(): a minute and its microseconds
DateTimes == [ minute : 0..1, microsecond : {0, 500000} ]

\* datetime.isoformat(): the text leaves the microseconds out when they are 0
isoformat(t) ==
  IF t.microsecond = 0 THEN << t.minute >> ELSE << t.minute, t.microsecond >>

\* the names of the TraderState classes
StateNames == {"Initializing", "HoldingLeveraged", "HoldingNonLeveraged"}
\* the entry prices of the SignalData written
EntryPrices == {0, 5000, 9950}

\* SignalData with its four fields
SignalDatas ==
  [ time_last_base_change     : DateTimes,
    base_value_at_last_change : DecideReferences,
    lev_value_at_last_change  : DecideLevReferences,
    position_entry_price      : EntryPrices ]

\* sb.write_state: the row inserted into the table 'state'
write_state(state_name, time_last_base_change, base_value_at_last_change, lev_value_at_last_change) ==
  [ state_name                |-> state_name,
    time_last_base_change     |-> isoformat(time_last_base_change),
    base_value_at_last_change |-> base_value_at_last_change,
    lev_value_at_last_change  |-> lev_value_at_last_change ]

\* the greatest quantity of a MarketOrder built on its own, in 1/1000 share
MaxQuantity == 24

\* MarketOrder.quantity: Field(gt=0.0).  The quantities half way between
\* two multiples of 0.01 are left out: round(x, 2) of such a float goes the
\* way of its binary expansion.
OrderQuantities == { n \in 1..MaxQuantity : n % 10 # 5 }

\* the values of a position before an order, and how far the value re-read
\* after it has moved: around 0 and around 5 currency, both ways
ValuesBefore == {0, 10 * MONEY, 50 * MONEY}
ValueMoves ==
  { sign * (d + e) : sign \in {-1, 1}, d \in {0, VERIFY_DELTA * MONEY},
                     e \in {-1, 0, 1} }
ValuePairs ==
  { v \in [ old : ValuesBefore, move : ValueMoves ] : v.old + v.move >= 0 }

\* the quantities a sell leg can find held: around the residual of the
\* instrument, multiples of 0.01 share and others
HeldQuantities(t) ==
  { Residual(t) + d : d \in { n \in (-LEV_RESIDUAL)..MaxQuantity : n % 10 # 5 } }

\* the calls made on their own
CallInputs ==
  [ fn : {"write_state"}, state_name : StateNames, signal_data : SignalDatas ]
  \cup [ fn : {"place_market_order"}, type : {"BUY", "SELL"},
         quantity : OrderQuantities ]
  \cup { [ fn |-> "verify", type |-> type, old |-> v.old, new |-> v.old + v.move ] :
           type \in {"BUY", "SELL"}, v \in ValuePairs }
  \cup UNION { { [ fn |-> "sell_leg", ticker |-> t, quantity |-> h ] :
                   h \in HeldQuantities(t) } : t \in Tickers }

CallInit ==
  /\ call_input \in CallInputs
  /\ call_result = NoCall
  /\ ProgramIdle
  /\ DecideIdle
  /\ WaitIdle
  /\ GateIdle
  /\ LimiterIdle
  /\ SchedIdle

\* main after process: write_state with the arguments main passes
MainWriteStateCall ==
  /\ call_input.fn = "write_state"
  /\ call_result = NoCall
  /\ LET sd == call_input.signal_data
     IN  call_result' =
           write_state(call_input.state_name, sd.time_last_base_change,
                       sd.base_value_at_last_change, sd.lev_value_at_last_change)
  /\ UNCHANGED << call_input, program, decide, wait, gate, limiter, sched >>

\* t212.place_market_order on a MarketOrder: the payload it posts
PlaceMarketOrderCall ==
  /\ call_input.fn = "place_market_order"
  /\ call_result = NoCall
  /\ call_result' =
       [ quantity |-> MarketOrderPayload(call_input.type, call_input.quantity, 1) ]
  /\ UNCHANGED << call_input, program, decide, wait, gate, limiter, sched >>

\* process after time.sleep(5): the value re-read is compared with the value
\* before the order, and the leg counts as filled or not
VerifyCall ==
  /\ call_input.fn = "verify"
  /\ call_result = NoCall
  /\ call_result' =
       [ filled |-> IF call_input.type = "BUY"
                    THEN BuyVerified(call_input.new, call_input.old)
                    ELSE SellVerified(call_input.new, call_input.old) ]
  /\ UNCHANGED << call_input, program, decide, wait, gate, limiter, sched >>

\* the sell leg of a swap on a position of call_input.quantity: whether it
\* places an order, the quantity place_market_order posts, and what is held
\* once the broker has executed it
SellLegCall ==
  /\ call_input.fn = "sell_leg"
  /\ call_result = NoCall
  /\ LET t == call_input.ticker
         h == call_input.quantity
         payload == MarketOrderPayload("SELL", h - Residual(t), 1)
     IN  call_result' =
           IF h > Residual(t)
           THEN [ placed |-> TRUE, quantity |-> payload, left |-> h + payload ]
           ELSE [ placed |-> FALSE, quantity |-> 0, left |-> h ]
  /\ UNCHANGED << call_input, program, decide, wait, gate, limiter, sched >>

CallNext ==
  \/ MainWriteStateCall
  \/ PlaceMarketOrderCall
  \/ VerifyCall
  \/ SellLegCall

CallSpec == CallInit /\ [][CallNext]_vars

\* ----------------------------------------------------- C23: state snapshot

\* C23: the row written by write_state after a cycle holds the state name
\* and every field of the active state's SignalData: the time of the last
\* base change, the base and the leveraged value at that change, and the
\* position entry price.
C23_SnapshotHasEveryField ==
  (call_input.fn = "write_state" /\ call_result # NoCall) =>
    LET sd == call_input.signal_data
    IN  /\ call_result.state_name = call_input.state_name
        /\ call_result.time_last_base_change = isoformat(sd.time_last_base_change)
        /\ call_result.base_value_at_last_change = sd.base_value_at_last_change
        /\ call_result.lev_value_at_last_change = sd.lev_value_at_last_change
        /\ "position_entry_price" \in DOMAIN call_result
        /\ call_result.position_entry_price = sd.position_entry_price

\* ------------------------------------------------ C25: sign of the quantity

\* C25: the quantity in the payload of an order encodes its direction after
\* the rounding to two decimals: strictly positive for a BUY, strictly
\* negative for a SELL.
C25_QuantitySignIsDirection ==
  (call_input.fn = "place_market_order" /\ call_result # NoCall) =>
    /\ call_input.type = "BUY" => call_result.quantity > 0
    /\ call_input.type = "SELL" => call_result.quantity < 0

\* ------------------------------------------------------- C21: tradability gate

\* C21: process is only invoked in an iteration whose are_positions_tradeable
\* returned true, and an iteration whose gate returned false leaves the
\* trader state and its signal data as they were, sends no order and does not
\* reach write_state.
C21_GateBeforeProcess ==
  [][ /\ cycle'.state # "" => cycle'.all_open = "True"
      /\ cycle'.exit = "markets_closed" =>
            /\ cycle'.all_open = "False"
            /\ cycle'.state = "" /\ cycle'.orders = << >>
            /\ pc' = "loop"
            /\ UNCHANGED << trader_state, signal_data, orders_placed >> ]_vars

\* an iteration of a holding state was skipped while the markets were closed
C21_SkippedWhileClosed ==
  /\ cycle.exit = "markets_closed"
  /\ trader_state \in {"HoldingLeveraged", "HoldingNonLeveraged"}
  /\ pc = "loop"

\* ------------------------------------------------ C22: best-effort side effects

\* the calls whose failure is not to stop trading: the notification, the two
\* snapshot writes and the tradability check
BestEffortCalls ==
  {"send_message", "write_positions", "write_state", "are_positions_tradeable"}

\* C22: a failure of the notification, of a snapshot write or of the
\* tradability check never ends the interpreter: the control loop is not
\* stopped by an exception raised in one of these calls.
C22_BestEffortFailuresSurvived ==
  ~(pc = "crashed" /\ crash_site.call \in BestEffortCalls)

\* ------------------------------------------------ C24: no buy while already held

\* initial_value, the value of instrument t read just before its buy order,
\* is the value of a quantity within the residual tolerance
ReadWithinResidual(t) ==
  \E q \in Prices(t), n \in 0..Residual(t) : initial_value = n * q

\* C24: a buy leg for an instrument (of Initializing or of a swap) is only
\* placed while the position the broker reports in that instrument is within
\* the residual tolerance.
C24_NoBuyWhileHeld ==
  /\ pc = "init_verify" => ReadWithinResidual(LEV_TICKER)
  /\ pc = "swap_verify_buy" => ReadWithinResidual(Other(Holding(trader_state)))

\* --------------------------------------------- C26: half-completed swaps

\* a swap has returned with its sell leg verified and its buy leg not placed
\* or not verified
HalfSwapped == Returned /\ cycle.sell_verified /\ ~cycle.buy_verified

\* an Initializing pass has read the positions and the cash and taken its
\* branch on them
ReInferred == cycle.state = "Initializing" /\ JustDecided

\* C26: a half-completed swap leaves the in-memory state as it was, and an
\* Initializing pass that re-infers the holding from the broker's positions
\* and cash runs later (unless the interpreter has ended).
C26_HalfSwapReconciled ==
  /\ [](HalfSwapped => trader_state = cycle.state)
  /\ HalfSwapped ~> (ReInferred \/ pc = "crashed")

\* ------------------------------------------------ C27: transition relation

\* C27: trader_state changes only when process returns; the process that
\* returns is that of the active state; Initializing.process returns one of
\* the three states and the process of a holding state returns a holding
\* state, so Initializing is not re-entered from a holding state.
C27_TransitionRelation ==
  [][ /\ (pc' = "write_state" /\ pc # "write_state") =>
            /\ cycle'.state = trader_state
            /\ trader_state' \in (IF trader_state = "Initializing"
                                  THEN StateNames ELSE HoldingStates)
      /\ ~(pc' = "write_state" /\ pc # "write_state") =>
            trader_state' = trader_state
      /\ trader_state \in HoldingStates => trader_state' \in HoldingStates ]_vars

\* the process of a holding state has returned the other holding state
C27_HoldingToHolding ==
  /\ Returned
  /\ cycle.state = "HoldingLeveraged"
  /\ trader_state = "HoldingNonLeveraged"

\* ---------------------------------------------------- C28: order of the legs

\* the step posts a buy order in a swap
SwapBuyPosted ==
  /\ cycle.state \in HoldingStates
  /\ Len(cycle'.orders) = Len(cycle.orders) + 1
  /\ cycle'.orders[Len(cycle'.orders)].type = "BUY"

\* C28: a swap posts its buy order only in the step that has re-read the
\* positions and found the value of the instrument sold lower by more than 5
\* and has read cash of at least 10; an iteration posts at most two orders,
\* and two orders are a sell followed by a buy.
C28_BuyAfterVerifiedSell ==
  [][ /\ SwapBuyPosted =>
            /\ pc = "swap_verify_sell"
            /\ \E p \in Prices(Holding(trader_state)) :
                 positions[Holding(trader_state)] * p
                   < initial_value - VERIFY_DELTA * MONEY
            /\ cash >= MIN_CASH * MONEY
            /\ cycle'.sell_verified
      /\ Len(cycle'.orders) <= 2
      /\ Len(cycle'.orders) = 2 =>
            /\ cycle'.orders[1].type = "SELL"
            /\ cycle'.orders[2].type = "BUY" ]_vars

\* both legs of a swap have been placed
C28_BothLegsPlaced ==
  /\ pc = "swap_verify_buy"
  /\ Len(cycle.orders) = 2
  /\ cycle.sell_verified

\* ------------------------------------------------ C29: value-delta verification

\* the leg of the call has been compared
Verified(type) ==
  call_input.fn = "verify" /\ call_input.type = type /\ call_result # NoCall

\* C29: a buy counts as filled exactly when the value re-read exceeds the
\* value before the order by more than 5, and a sell exactly when it is
\* lower by more than 5; a move of 5 or less, or the other way, is not a fill.
C29_FilledIffMovedMoreThanFive ==
  /\ Verified("BUY") =>
       (call_result.filled <=>
          call_input.new - call_input.old > VERIFY_DELTA * MONEY)
  /\ Verified("SELL") =>
       (call_result.filled <=>
          call_input.old - call_input.new > VERIFY_DELTA * MONEY)

\* a buy whose value rose by exactly 5 was not taken as filled
C29_ExactlyFiveNotFilled ==
  /\ Verified("BUY")
  /\ call_input.new - call_input.old = VERIFY_DELTA * MONEY
  /\ ~call_result.filled

\* ------------------------------------------------------ C30: re-reads in a swap

\* the step posts the sell order of a swap
SwapSellPosted ==
  /\ cycle.state \in HoldingStates
  /\ Len(cycle'.orders) = Len(cycle.orders) + 1
  /\ cycle'.orders[Len(cycle'.orders)].type = "SELL"

\* C30: the sell order of a swap is sized from the quantity the broker
\* reports when the swap re-reads the positions, and the buy order from the
\* cash and the price the broker reports after the sell leg; neither is sized
\* from what was read before the previous step of the swap.
C30_OrdersSizedFromReread ==
  [][ /\ SwapSellPosted =>
            LET t == Holding(trader_state)
            IN  /\ pc = "swap_sell"
                /\ positions[t] > Residual(t)
                /\ cycle'.orders[Len(cycle'.orders)].quantity =
                      MarketOrderPayload("SELL", positions[t] - Residual(t), 1)
      /\ SwapBuyPosted =>
            \E q \in Prices(Other(Holding(trader_state))) :
              cycle'.orders[Len(cycle'.orders)].quantity =
                MarketOrderPayload("BUY", BUY_FRACTION_NUM * cash, 10 * q) ]_vars

\* a sell leg has been placed for the quantity the broker reported at the
\* swap's re-read, less the residual
C30_SellSizedFromReread ==
  /\ pc = "swap_verify_sell"
  /\ Len(cycle.orders) = 1
  /\ cycle.orders[1].type = "SELL"
  /\ \E p \in Prices(Holding(trader_state)) :
       /\ initial_value = positions[Holding(trader_state)] * p
       /\ cycle.orders[1].quantity =
            MarketOrderPayload("SELL", positions[Holding(trader_state)]
                                         - Residual(Holding(trader_state)), 1)

\* ------------------------------------------------- C31: reset of the reference

\* a holding state has read a base price that differs from its reference,
\* and (in HoldingNonLeveraged) neither take-profit nor stop-loss holds
BaseChangedWithoutTrigger ==
  /\ JustDecided
  /\ cycle.state \in HoldingStates
  /\ ReadBase # RefBase
  /\ cycle.state = "HoldingNonLeveraged" =>
        ~(ReadBase > Entry) /\ ~BelowStopLossPrice

\* C31: when the base price read differs from the reference and no swap is
\* triggered, process returns the same holding state, places no order, and
\* the state returned has the base and leveraged prices read as its
\* reference, its clock at zero and the entry price it had.
C31_ReferenceResetKeepsEntry ==
  BaseChangedWithoutTrigger =>
    /\ Returned
    /\ trader_state = cycle.state
    /\ cycle.orders = << >>
    /\ signal_data = SignalData(ReadBase, ReadLev, Entry)
    /\ time_since_base_change = 0

\* HoldingNonLeveraged has reset its reference and kept an entry price that
\* differs from the new reference
C31_ReferenceResetSeen ==
  /\ BaseChangedWithoutTrigger
  /\ cycle.state = "HoldingNonLeveraged"
  /\ Returned
  /\ signal_data.position_entry_price # signal_data.base_value_at_last_change

\* ------------------------------------------------- C32: entry price of a swap

\* the step in which _swap_to_non_leveraged verifies its buy leg and returns
SwapToNonLeveragedCompletes ==
  /\ pc = "swap_verify_buy"
  /\ trader_state = "HoldingLeveraged"
  /\ pc' = "write_state"
  /\ cycle'.buy_verified

\* C32: a completed swap from HoldingLeveraged returns HoldingNonLeveraged
\* whose entry price is the base price of the reading that verified the buy
\* leg, whose reference prices are the base and leveraged prices of that
\* reading, and whose clock starts at the cycle's time.
C32_SwapRecordsEntryPrice ==
  [][ SwapToNonLeveragedCompletes =>
        /\ trader_state' = "HoldingNonLeveraged"
        /\ time_since_base_change' = 0
        /\ \E bp \in BasePrices, lp \in LevPrices :
             /\ BuyVerified(positions[BASE_TICKER] * bp, initial_value)
             /\ signal_data' = SignalData(bp, lp, bp) ]_vars

\* HoldingLeveraged has completed a swap: the state returned is
\* HoldingNonLeveraged with the reference base price as its entry price
C32_SwapCompleted ==
  /\ Returned
  /\ cycle.state = "HoldingLeveraged"
  /\ cycle.exit = "swapped"
  /\ trader_state = "HoldingNonLeveraged"
  /\ signal_data.position_entry_price = signal_data.base_value_at_last_change

\* ------------------------------------------- C33: SignalData is not mutated

\* process of the active state is running: it has not returned or raised
InProcess ==
  cycle.state # "" /\ pc \notin {"write_state", "crashed"}

\* C33: while process runs, the SignalData of the state it was called on has
\* the fields it had when the call began, and a call that returns with no
\* trigger and no change of the base price returns the same state with the
\* same signal data.
C33_SignalDataNotMutated ==
  /\ InProcess => signal_data = cycle.sd /\ trader_state = cycle.state
  /\ (Returned /\ cycle.exit = "no_action") =>
       signal_data = cycle.sd /\ trader_state = cycle.state

\* a swap is waiting to verify its buy leg with the signal data the state
\* had when process was called
C33_MidSwapSameSignalData ==
  /\ InProcess
  /\ pc = "swap_verify_buy"
  /\ signal_data = cycle.sd
  /\ signal_data.lev_value_at_last_change # 0

\* ------------------------------------------- C34: unverified fills, enum loop

\* the match statement has been left by READY_TO_INVEST or
\* INVESTED_IN_NON_LEVERAGE
OrderStateLeft ==
  /\ pc = "schedule"
  /\ cycle.state \in {"READY_TO_INVEST", "INVESTED_IN_NON_LEVERAGE"}

\* C34: READY_TO_INVEST becomes INVESTED_IN_NON_LEVERAGE, and
\* INVESTED_IN_NON_LEVERAGE becomes INITIALIZING, only when
\* wait_for_order_or_cancel returned true; when it returned false or raised,
\* or when placing the order raised, the state is ORDER_FAILED.
C34_UnverifiedFillFails ==
  OrderStateLeft =>
    /\ (cycle.state = "READY_TO_INVEST"
          /\ trader_state = "INVESTED_IN_NON_LEVERAGE") => wait_returned = "True"
    /\ (cycle.state = "INVESTED_IN_NON_LEVERAGE"
          /\ trader_state = "INITIALIZING") => wait_returned = "True"
    /\ wait_returned \in {"False", "raised"} => trader_state = "ORDER_FAILED"
    /\ cycle.exit = "order_error" => trader_state = "ORDER_FAILED"
    /\ trader_state \in {cycle.state, "ORDER_FAILED",
                          IF cycle.state = "READY_TO_INVEST"
                          THEN "INVESTED_IN_NON_LEVERAGE" ELSE "INITIALIZING"}

\* the buy of READY_TO_INVEST was not filled within the maximum wait and the
\* state is ORDER_FAILED
C34_TimedOutBuyFailed ==
  /\ OrderStateLeft
  /\ cycle.state = "READY_TO_INVEST"
  /\ wait_returned = "False"
  /\ trader_state = "ORDER_FAILED"

\* ------------------------------------------------------ C35: fill inference

\* C35: wait_for_order_or_cancel has returned true exactly when its last
\* lookup of the order was answered "not found"; while it polls, every
\* lookup so far was answered otherwise (open, or an error status) and the
\* call has not returned.
C35_TrueIffNotFound ==
  /\ WaitEnded => (wait_returned = "True" <=> cycle.lookup = "not_found")
  /\ pc \in {"wait_poll", "wait_sleep"} =>
       (cycle.lookup \in {"open", "error"} /\ wait_returned = "")

\* the call returned true on a lookup answered "not found"
C35_ReturnedTrueOnNotFound ==
  /\ WaitEnded
  /\ wait_returned = "True"
  /\ cycle.lookup = "not_found"

\* --------------------------------------------- C36: a false result and fills

\* the broker executed the order between the last lookup, which still saw it
\* open, and the cancel request of the timeout
FilledBeforeCancel ==
  /\ WaitEnded
  /\ WaitTimedOut
  /\ cycle.lookup = "open"
  /\ wait_filled

Waiting == pc \in {"wait_first", "wait_poll", "wait_sleep"}

\* C37: every call of wait_for_order_or_cancel ends, whatever the broker
\* answers to its lookups: a call that is running is eventually not running
\* any more, having returned True or False or raised.
C37_WaitTerminates == Waiting ~> ~Waiting

\* a call that polled until the timeout with every lookup answered "open"
\* has ended
C37_PolledToTimeout ==
  /\ WaitEnded
  /\ WaitTimedOut
  /\ cycle.lookup = "open"
  /\ wait_returned \in {"True", "False"}

\* --------------------------------------------------- C38: the residual is kept

\* a sell leg has run on a position of held shares of ticker t
SellLegRan == call_input.fn = "sell_leg" /\ call_result # NoCall

\* C38 as claimed: the sell leg places no order on a position that does not
\* exceed the residual, and otherwise sells the quantity held less the
\* residual, so that the residual or more is left.
C38_SellLeavesResidual ==
  SellLegRan =>
    LET t == call_input.ticker
        h == call_input.quantity
    IN  /\ call_result.placed <=> h > Residual(t)
        /\ call_result.placed =>
              /\ -call_result.quantity = h - Residual(t)
              /\ call_result.left >= Residual(t)
        /\ ~call_result.placed => call_result.left = h

\* C38 amended: the sell leg places no order on a position that does not
\* exceed the residual, and otherwise sells the quantity held less the
\* residual rounded to 0.01 share; what is left is never nothing, within
\* 0.005 share of the residual, and the residual itself when the quantity
\* held is a multiple of 0.01 share.
C38_SellLeavesAboutResidual ==
  SellLegRan =>
    LET t == call_input.ticker
        h == call_input.quantity
    IN  /\ call_result.placed <=> h > Residual(t)
        /\ call_result.placed =>
              /\ -call_result.quantity = Round2(h - Residual(t), 1)
              /\ call_result.left > 0
              /\ call_result.left - Residual(t) \in -5..5
              /\ (h % 10 = 0) => call_result.left = Residual(t)
        /\ ~call_result.placed => call_result.left = h

\* a sell leg on a quantity that is no multiple of 0.01 share has sold more
\* than the quantity less the residual
C38_SoldIntoResidual ==
  /\ SellLegRan
  /\ call_result.placed
  /\ call_result.left < Residual(call_input.ticker)
  /\ call_result.left > 0

\* the control loop on accounts whose quantities are multiples of 0.01
\* share: every position holds at least its residual
ResidualKept == \A t \in Tickers : positions[t] >= Residual(t)

\* ------------------------------------- C39: notification and trading decisions

\* process has returned through the except clause of a leg's try block: the
\* placement of the leg's order counted as failed
PlacementCountedFailed(type) ==
  /\ Returned
  /\ cycle.exit = (IF type = "SELL" THEN "sell_error" ELSE "buy_error")

\* C39: whether a send_message succeeds or fails changes neither the state
\* process returns nor the orders it places; in particular, when process
\* counts the placement of a leg's order as failed, the broker has accepted
\* no order of that leg: an accepted order is never counted as failed
\* because the notification that follows it failed.
C39_AcceptedOrderNotCountedFailed ==
  \A type \in {"SELL", "BUY"} :
    PlacementCountedFailed(type) =>
      \A i \in DOMAIN cycle.orders :
        (cycle.orders[i].type = type) => ~cycle.orders[i].accepted


====
